---- MODULE Spec2Model ----
(***************************************************************************)
(* Document-intake service: backend selection at Processor construction,   *)
(* the process_document pipeline, the document service (single and batch   *)
(* scans, temp files) and the startup hooks of the three applications.     *)
(*                                                                         *)
(* Scores are exact rationals stored as integers scaled by Scale           *)
(* (1.0 = Scale).  A document text is represented by its length.           *)
(***************************************************************************)
EXTENDS Integers, Sequences, FiniteSets, TLC

\* ------------------------------------------------------------------ bounds
MaxResp == 3        \* longest raw model output, in tokens
MaxBatch == 3       \* most documents in one batch
MaxFiles == 2       \* most temp files left in uploads/ before app.py takes
                    \* no further upload
MaxTpl == 3         \* longest prompt template, in tokens
MaxTasks == 2       \* most requests and calls served in one run
MaxLifecycle == 4   \* most calls of initialize_services and cleanup_services

\* ------------------------------------------------------- program constants
Scale == 600                      \* the score 1.0
HIGH_THRESHOLD == 480             \* 0.8
CONFIDENCE_THRESHOLD == 360       \* 0.6, Config.CONFIDENCE_THRESHOLD default
DEFAULT_COMPLETENESS == 300       \* 0.5
PREVIEW_LEN == 300                \* text[:300]
MAX_FILE_SIZE == 10485760         \* 10 * 1024 * 1024

Min(a, b) == IF a < b THEN a ELSE b
Max(a, b) == IF a > b THEN a ELSE b

None == [none |-> TRUE]

\* ---------------------------------------------------------- prompt catalog
\* A template is a sequence of tokens:
\*   "L" literal text, "T" {text}, "P" {text_preview}, "U" a named placeholder
\*   that is not supplied, "I" a positional placeholder ({} or {0}), "B" a
\*   single unbalanced brace.
TemplateTokens == {"L", "T", "P", "U", "I", "B"}

get_default_prompts ==
    [document_types |->
        [invoice |-> [ollama |-> <<"L", "T", "L">>,
                      openai |-> <<"L", "T", "L">>,
                      huggingface |-> <<"L", "P", "L">>]],
     default |-> [ollama |-> <<"L", "T", "L">>,
                  openai |-> <<"L", "T", "L">>,
                  huggingface |-> <<"L", "P", "L">>]]

\* Contents prompts.yaml can have.  "custom" is a well-formed catalog that
\* covers receipt for ollama only and has no default for huggingface;
\* "braces" is a catalog whose templates carry JSON examples with braces.
YamlFiles == {"missing", "yaml_error", "empty", "custom", "braces"}

CustomCatalog ==
    [document_types |->
        [receipt |-> [ollama |-> <<"L", "T", "P">>]],
     default |-> [ollama |-> <<"T">>, openai |-> <<"L", "T">>]]

BracesCatalog ==
    [document_types |->
        [invoice |-> [ollama |-> <<"L", "U", "T">>,
                      openai |-> <<"L", "T", "I">>,
                      huggingface |-> <<"P", "B">>],
         form |-> [ollama |-> <<"T", "I">>]],
     default |-> [ollama |-> <<"T", "B", "U">>,
                  openai |-> <<"T">>,
                  huggingface |-> <<"I", "P">>]]

\* PromptLoader._load_prompts: yaml.safe_load of the file, the built-in
\* catalog when the file is missing or is not YAML.  An empty file loads as
\* None.
load_prompts(yaml) ==
    CASE yaml = "missing" -> get_default_prompts
      [] yaml = "yaml_error" -> get_default_prompts
      [] yaml = "empty" -> None
      [] yaml = "custom" -> CustomCatalog
      [] yaml = "braces" -> BracesCatalog

\* a resolution that looks at the default entry before the exact one
get_prompt_default_first(prompts, doc_type, method) ==
    LET document_types == IF "document_types" \in DOMAIN prompts
                          THEN prompts.document_types ELSE <<>>
        default_prompts == IF "default" \in DOMAIN prompts
                           THEN prompts.default ELSE <<>>
    IN  IF method \in DOMAIN default_prompts
        THEN default_prompts[method]
        ELSE IF doc_type \in DOMAIN document_types
                /\ method \in DOMAIN document_types[doc_type]
        THEN document_types[doc_type][method]
        ELSE <<doc_type, "T", "L">>

\* PromptLoader.get_prompt, on a catalog that is a mapping.  The last
\* template is the synthesized one: its first token is the literal text that
\* names doc_type.
get_prompt(prompts, doc_type, method) ==
    LET document_types == IF "document_types" \in DOMAIN prompts
                          THEN prompts.document_types ELSE <<>>
        default_prompts == IF "default" \in DOMAIN prompts
                           THEN prompts.default ELSE <<>>
    IN  IF doc_type \in DOMAIN document_types
           /\ method \in DOMAIN document_types[doc_type]
        THEN document_types[doc_type][method]
        ELSE IF method \in DOMAIN default_prompts
        THEN default_prompts[method]
        ELSE <<doc_type, "T", "L">>

\* PromptLoader.get_prompt as a call: self.prompts.get fails on a catalog
\* that is None.
get_prompt_call(prompts, doc_type, method) ==
    IF prompts = None
    THEN [raised |-> "AttributeError", value |-> <<>>]
    ELSE [raised |-> "", value |-> get_prompt(prompts, doc_type, method)]

Piece(kind, n) == [kind |-> kind, n |-> n]

\* index of the first token of tpl that str.format cannot fill, 0 if none
RECURSIVE FirstBad(_, _)
FirstBad(tpl, i) ==
    IF i > Len(tpl) THEN 0
    ELSE IF tpl[i] \in {"U", "I", "B"} THEN i
    ELSE FirstBad(tpl, i + 1)

FormatError(tok) ==
    CASE tok = "U" -> "KeyError"
      [] tok = "I" -> "IndexError"
      [] tok = "B" -> "ValueError"

\* a format_prompt whose literal replacement puts the whole text in the
\* place of the preview
format_prompt_full_preview(prompts, doc_type, method, text) ==
    LET prompt_template == get_prompt(prompts, doc_type, method)
        text_preview == IF text > PREVIEW_LEN THEN PREVIEW_LEN ELSE text
        bad == FirstBad(prompt_template, 1)
        Fill(tok, pv) ==
            CASE tok = "T" -> Piece("text", text)
              [] tok = "P" -> Piece("text", pv)
              [] OTHER -> Piece(tok, 0)
    IN  IF bad = 0
        THEN [raised |-> "",
              value |-> [i \in 1..Len(prompt_template) |->
                            Fill(prompt_template[i], text_preview)]]
        ELSE IF FormatError(prompt_template[bad]) = "KeyError"
        THEN [raised |-> "",
              value |-> [i \in 1..Len(prompt_template) |->
                            Fill(prompt_template[i], text)]]
        ELSE [raised |-> FormatError(prompt_template[bad]), value |-> <<>>]

\* PromptLoader.format_prompt.  text is the length of the document text.
format_prompt(prompts, doc_type, method, text) ==
    LET prompt_template == get_prompt(prompts, doc_type, method)
        text_preview == IF text > PREVIEW_LEN THEN PREVIEW_LEN ELSE text
        bad == FirstBad(prompt_template, 1)
        Fill(tok, pv) ==
            CASE tok = "T" -> Piece("text", text)
              [] tok = "P" -> Piece("text", pv)
              [] OTHER -> Piece(tok, 0)
    IN  IF bad = 0
        THEN [raised |-> "",
              value |-> [i \in 1..Len(prompt_template) |->
                            Fill(prompt_template[i], text_preview)]]
        ELSE IF FormatError(prompt_template[bad]) = "KeyError"
        THEN [raised |-> "",
              value |-> [i \in 1..Len(prompt_template) |->
                            Fill(prompt_template[i], Min(text, PREVIEW_LEN))]]
        ELSE [raised |-> FormatError(prompt_template[bad]), value |-> <<>>]

\* ------------------------------------------------------ raw model outputs
\* A raw model output is a sequence of tokens: "{" and "}" are braces, "x" is
\* prose, and a member token stands for one "key": value pair of a JSON
\* object (with the comma that separates it from its neighbours).
Members == {"v", "e", "i", "k"}
RespTokens == {"{", "}", "x"} \cup Members

MemberKey(m) ==
    CASE m = "v" -> "vendor_name"
      [] m = "e" -> "total_amount"
      [] m = "i" -> "items"
      [] m = "k" -> "line_items"

\* A value of extracted_data: a string, or the text of a raw model output.
Str(x) == [kind |-> "str", str |-> x, raw |-> <<>>]
RawText(response) == [kind |-> "raw", str |-> "", raw |-> response]

JSON_ARRAY == Str("[{\"name\": \"Tea\"}]")       \* embeds a JSON array
BRACKETED == Str("[Tea, Milk]")                  \* bracket-delimited, not JSON
BULLETS == Str("- Tea")
BULLETS_SPLIT == Str("- Tea\n- Milk")

MemberValue(m) ==
    CASE m = "v" -> Str("Acme")
      [] m = "e" -> Str("")
      [] m = "i" -> JSON_ARRAY
      [] m = "k" -> BRACKETED

RawOutputs == UNION {[1..n -> RespTokens] : n \in 0..MaxResp}

EmptyDict == [k \in {} |-> Str("")]

\* s[a..b], empty when b < a (Python's response[start:end])
Slice(s, a, b) == IF b < a THEN <<>> ELSE SubSeq(s, a, b)

\* str.find / str.rfind on a token sequence: 1-based index, 0 when absent
Find(s, c) ==
    IF \E i \in 1..Len(s) : s[i] = c
    THEN CHOOSE i \in 1..Len(s) : s[i] = c /\ \A j \in 1..(i - 1) : s[j] # c
    ELSE 0

RFind(s, c) ==
    IF \E i \in 1..Len(s) : s[i] = c
    THEN CHOOSE i \in 1..Len(s) : s[i] = c /\ \A j \in (i + 1)..Len(s) : s[j] # c
    ELSE 0

\* json.loads of a token sequence: an object is "{", members, "}".  The last
\* occurrence of a key wins.
JsonValid(s) ==
    /\ Len(s) >= 2
    /\ s[1] = "{"
    /\ s[Len(s)] = "}"
    /\ \A i \in 2..(Len(s) - 1) : s[i] \in Members

JsonLoads(s) ==
    LET keys == {MemberKey(s[i]) : i \in 2..(Len(s) - 1)}
        last(k) == CHOOSE i \in 2..(Len(s) - 1) :
                      /\ MemberKey(s[i]) = k
                      /\ \A j \in (i + 1)..(Len(s) - 1) : MemberKey(s[j]) # k
    IN  [k \in keys |-> MemberValue(s[last(k)])]

\* a parser that cuts at the first closing brace
parse_json_response_first_close(response) ==
    LET start == Find(response, "{")
        end == Find(response, "}")
    IN  IF start # 0 /\ end # 0
        THEN LET json_str == Slice(response, start, end)
             IN  IF JsonValid(json_str)
                 THEN JsonLoads(json_str)
                 ELSE [raw_response |-> RawText(response)]
        ELSE [raw_response |-> RawText(response)]

\* Processor._parse_json_response
parse_json_response(response) ==
    LET start == Find(response, "{")
        end == RFind(response, "}")
    IN  IF start # 0 /\ end # 0
        THEN LET json_str == Slice(response, start, end)
             IN  IF JsonValid(json_str)
                 THEN JsonLoads(json_str)
                 ELSE [raw_response |-> RawText(response)]
        ELSE [raw_response |-> RawText(response)]

\* ------------------------------------------------------- post-processing
item_fields == {"items_purchased", "line_items", "items", "products"}

RawKey(field) ==
    CASE field = "items_purchased" -> "items_purchased_raw"
      [] field = "line_items" -> "line_items_raw"
      [] field = "items" -> "items_raw"
      [] field = "products" -> "products_raw"

\* Processor._post_process_extracted_data: a list field whose string value
\* embeds a non-empty JSON array becomes a bulleted summary and the value it
\* had is kept under <field>_raw; a bracket-delimited value that is not JSON
\* is split at the commas into bullets, and nothing is kept.
post_process_extracted_data(extracted_data) ==
    LET parsed == {f \in item_fields \cap DOMAIN extracted_data :
                      extracted_data[f] = JSON_ARRAY}
        split == {f \in item_fields \cap DOMAIN extracted_data :
                     extracted_data[f] = BRACKETED}
        raws == {RawKey(f) : f \in parsed}
    IN  [k \in DOMAIN extracted_data \cup raws |->
            IF k \in parsed THEN BULLETS
            ELSE IF k \in split THEN BULLETS_SPLIT
            ELSE IF k \in raws
                 THEN extracted_data[CHOOSE f \in parsed : RawKey(f) = k]
                 ELSE extracted_data[k]]

\* ----------------------------------------------------- confidence policy
\* Python truthiness of a value of extracted_data
Truthy(v) == IF v.kind = "raw" THEN Len(v.raw) > 0 ELSE v.str # ""

\* a completeness that takes the ratio also when there is an error key
data_completeness_ratio_only(extracted_data) ==
    LET total_fields == Cardinality(DOMAIN extracted_data)
        non_empty_fields ==
            Cardinality({k \in DOMAIN extracted_data : Truthy(extracted_data[k])})
    IN  IF DOMAIN extracted_data # {}
        THEN (Scale * non_empty_fields) \div total_fields
        ELSE DEFAULT_COMPLETENESS

\* a completeness that counts a failed extraction as empty
data_completeness_error_zero(extracted_data) ==
    LET total_fields == Cardinality(DOMAIN extracted_data)
        non_empty_fields ==
            Cardinality({k \in DOMAIN extracted_data : Truthy(extracted_data[k])})
    IN  IF "error" \in DOMAIN extracted_data THEN 0
        ELSE IF DOMAIN extracted_data # {}
        THEN (Scale * non_empty_fields) \div total_fields
        ELSE DEFAULT_COMPLETENESS

\* a completeness that takes the default for an output kept as raw_response
data_completeness_raw_default(extracted_data) ==
    LET total_fields == Cardinality(DOMAIN extracted_data)
        non_empty_fields ==
            Cardinality({k \in DOMAIN extracted_data : Truthy(extracted_data[k])})
    IN  IF /\ DOMAIN extracted_data # {}
           /\ "error" \notin DOMAIN extracted_data
           /\ "raw_response" \notin DOMAIN extracted_data
        THEN (Scale * non_empty_fields) \div total_fields
        ELSE DEFAULT_COMPLETENESS

\* Processor._calculate_confidence, the data completeness factor
data_completeness(extracted_data) ==
    LET total_fields == Cardinality(DOMAIN extracted_data)
        non_empty_fields ==
            Cardinality({k \in DOMAIN extracted_data : Truthy(extracted_data[k])})
    IN  IF DOMAIN extracted_data # {} /\ "error" \notin DOMAIN extracted_data
        THEN (IF total_fields > 0
              THEN (Scale * non_empty_fields) \div total_fields
              ELSE DEFAULT_COMPLETENESS)
        ELSE DEFAULT_COMPLETENESS

\* a confidence with the two weights exchanged
calculate_confidence_swapped(ml_confidence, extracted_data) ==
    LET overall_confidence ==
            (ml_confidence * 6 + data_completeness(extracted_data) * 4) \div 10
    IN  Min(Scale, Max(0, overall_confidence))

\* Processor._calculate_confidence
calculate_confidence(ml_confidence, extracted_data) ==
    LET overall_confidence ==
            (ml_confidence * 4 + data_completeness(extracted_data) * 6) \div 10
    IN  Min(Scale, Max(0, overall_confidence))

\* get_confidence_level with strict comparisons
get_confidence_level_strict(score) ==
    IF score > HIGH_THRESHOLD THEN "high"
    ELSE IF score > CONFIDENCE_THRESHOLD THEN "medium"
    ELSE "low"

\* Processor._get_confidence_level
get_confidence_level(score) ==
    IF score >= HIGH_THRESHOLD THEN "high"
    ELSE IF score >= CONFIDENCE_THRESHOLD THEN "medium"
    ELSE "low"

\* ------------------------------------------------------------ classifier
\* The labels the classifier was trained on, in the order of classes_.
TrainingLabels == <<"contract", "form", "invoice", "receipt">>

\* Sample documents: the length of the text and the posterior vector
\* predict_proba gives it (one entry per label, summing to 1.0).
Doc(text, q) == [text |-> text, q |-> q]

Documents ==
    {Doc(0, <<150, 150, 150, 150>>),
     Doc(40, <<0, 0, 600, 0>>),
     Doc(40, <<0, 0, 150, 450>>),
     Doc(120, <<300, 300, 0, 0>>),
     Doc(120, <<0, 450, 150, 0>>),
     Doc(301, <<450, 0, 150, 0>>),
     Doc(301, <<0, 0, 300, 300>>),
     Doc(301, <<0, 150, 150, 300>>)}

\* a classifier that answers "unknown" when no label reaches the threshold
classify_document_open_set(q) ==
    LET confidence == CHOOSE m \in {q[i] : i \in 1..4} : \A i \in 1..4 : q[i] <= m
        best == CHOOSE i \in 1..4 : q[i] = confidence /\ \A j \in 1..(i - 1) : q[j] < confidence
    IN  [prediction |-> IF confidence < CONFIDENCE_THRESHOLD THEN "unknown"
                        ELSE TrainingLabels[best],
         confidence |-> confidence]

\* Processor._classify_document: the most probable label (the first one on a
\* tie) and its posterior probability.
classify_document(q) ==
    LET confidence == CHOOSE m \in {q[i] : i \in 1..4} : \A i \in 1..4 : q[i] <= m
        best == CHOOSE i \in 1..4 : q[i] = confidence /\ \A j \in 1..(i - 1) : q[j] < confidence
    IN  [prediction |-> TrainingLabels[best], confidence |-> confidence]

\* ------------------------------------------------------ extraction adapters
\* What the outside world does during one extraction: w.kind is
\*   "ok"          the backend answers with the raw output w.response
\*   "status"      (ollama) the server answers with a status other than 200
\*   "exception"   the call raises: timeout, connection error, bad payload
\*   "build_error" (openai) PromptTemplate or LLMChain construction raises
Returned(data) == [raised |-> "", data |-> data]
Raised(exc) == [raised |-> exc, data |-> EmptyDict]

ErrorOnly == [error |-> Str("Ollama API error")]
ErrorWithRaw == [error |-> Str("exception message"), raw_response |-> Str("")]

\* an ollama adapter that answers a raised exception like a bad status
extract_with_ollama_error_only(self, text, doc_type, w) ==
    LET prompt == format_prompt(self.prompts, doc_type, "ollama", text)
    IN  IF prompt.raised # "" THEN Raised(prompt.raised)
        ELSE IF w.kind = "ok" THEN Returned(parse_json_response(w.response))
        ELSE Returned(ErrorOnly)

\* Processor._extract_with_ollama
extract_with_ollama(self, text, doc_type, w) ==
    LET prompt == format_prompt(self.prompts, doc_type, "ollama", text)
    IN  IF prompt.raised # "" THEN Raised(prompt.raised)
        ELSE IF w.kind = "ok" THEN Returned(parse_json_response(w.response))
        ELSE IF w.kind = "status" THEN Returned(ErrorOnly)
        ELSE Returned(ErrorWithRaw)

\* Processor._extract_with_huggingface
extract_with_huggingface(self, text, doc_type, w) ==
    LET prompt == format_prompt(self.prompts, doc_type, "huggingface", text)
    IN  IF prompt.raised # "" THEN Raised(prompt.raised)
        ELSE IF w.kind = "ok" THEN Returned(parse_json_response(w.response))
        ELSE Returned(ErrorWithRaw)

\* Processor._extract_with_gpt4
extract_with_gpt4(self, text, doc_type, w) ==
    LET prompt_template_str == get_prompt(self.prompts, doc_type, "openai")
    IN  IF w.kind = "build_error" THEN Raised("ChainConstructionError")
        ELSE IF w.kind = "ok" THEN Returned(parse_json_response(w.response))
        ELSE Returned(ErrorWithRaw)

\* Outputs with two members: a list field next to an empty field.
LongOutputs == {<<"{", "i", "e", "}">>, <<"{", "k", "e", "}">>}

\* The outcomes the world can produce for the adapter of one backend.
WorldOutcomes(method) ==
    [kind : {"ok"}, response : RawOutputs \cup LongOutputs]
    \cup [kind : (CASE method = "ollama" -> {"status", "exception"}
                    [] method = "huggingface" -> {"exception"}
                    [] OTHER -> {"exception", "build_error"}),
          response : {<<>>}]

\* ---------------------------------------------------------------- pipeline
\* a dispatch that takes the cloud adapter whenever ollama is not locked
Dispatch_cloud_fallback(self) ==
    IF self.extraction_method = "ollama" THEN "ollama" ELSE "openai"

\* The adapter process_document dispatches to.
Dispatch(self) ==
    IF self.extraction_method = "ollama" THEN "ollama"
    ELSE IF self.extraction_method = "huggingface" THEN "huggingface"
    ELSE IF self.extraction_method = "openai" THEN "openai"
    ELSE "none"

\* a pipeline that scores the output of the adapter before post-processing
process_document_score_raw(self, text, q, w) ==
    LET c == classify_document(q)
        doc_type == c.prediction
        ml_confidence == c.confidence
        adapter == Dispatch(self)
        extracted ==
            CASE adapter = "ollama" -> extract_with_ollama(self, text, doc_type, w)
              [] adapter = "huggingface" -> extract_with_huggingface(self, text, doc_type, w)
              [] adapter = "openai" -> extract_with_gpt4(self, text, doc_type, w)
              [] OTHER -> Returned([error |-> Str("No extraction method available")])
        extracted_data == post_process_extracted_data(extracted.data)
        overall_confidence == calculate_confidence(ml_confidence, extracted.data)
        confidence_level == get_confidence_level(overall_confidence)
        needs_review == (confidence_level = "low")
    IN  IF extracted.raised # ""
        THEN [self |-> self, adapter |-> adapter, raised |-> extracted.raised,
              label |-> doc_type, result |-> None]
        ELSE [self |-> self, adapter |-> adapter, raised |-> "",
              label |-> doc_type,
              result |-> [document_type |-> doc_type,
                          ml_confidence |-> ml_confidence,
                          overall_confidence |-> overall_confidence,
                          confidence_level |-> confidence_level,
                          needs_human_review |-> needs_review,
                          extracted_data |-> extracted_data,
                          extraction_method |-> self.extraction_method,
                          raw_text |-> text]]

\* Processor.process_document.  Returns the processor after the call, the
\* adapter that was called, the exception that left the call ("" if none) and
\* the result record.
process_document(self, text, q, w) ==
    LET c == classify_document(q)
        doc_type == c.prediction
        ml_confidence == c.confidence
        adapter == Dispatch(self)
        extracted ==
            CASE adapter = "ollama" -> extract_with_ollama(self, text, doc_type, w)
              [] adapter = "huggingface" -> extract_with_huggingface(self, text, doc_type, w)
              [] adapter = "openai" -> extract_with_gpt4(self, text, doc_type, w)
              [] OTHER -> Returned([error |-> Str("No extraction method available")])
        extracted_data == post_process_extracted_data(extracted.data)
        overall_confidence == calculate_confidence(ml_confidence, extracted_data)
        confidence_level == get_confidence_level(overall_confidence)
        needs_review == (confidence_level = "low")
    IN  IF extracted.raised # ""
        THEN [self |-> self, adapter |-> adapter, raised |-> extracted.raised,
              label |-> doc_type, result |-> None]
        ELSE [self |-> self, adapter |-> adapter, raised |-> "",
              label |-> doc_type,
              result |-> [document_type |-> doc_type,
                          ml_confidence |-> ml_confidence,
                          overall_confidence |-> overall_confidence,
                          confidence_level |-> confidence_level,
                          needs_human_review |-> needs_review,
                          extracted_data |-> extracted_data,
                          extraction_method |-> self.extraction_method,
                          raw_text |-> text]]

\* ------------------------------------------------- Processor construction
\* What the environment answers at construction time.
Environments ==
    [yaml : YamlFiles,
     ollama_tags : {"200", "500", "timeout"},
     hf_pipeline : {"ok", "raises"},
     langchain : BOOLEAN,
     api_key : BOOLEAN,
     openai_client : {"ok", "raises"}]

\* Processor._init_ollama: GET /api/tags answers 200
init_ollama(env) == env.ollama_tags = "200"

\* Processor._init_huggingface: the text-generation pipeline loads
init_huggingface(env) == env.hf_pipeline = "ok"

\* Processor._init_openai: a client is built only when langchain is installed
\* and an API key is configured
init_openai(env) ==
    IF env.langchain /\ env.api_key THEN env.openai_client = "ok" ELSE FALSE

Probe(backend, ok) == [backend |-> backend, ok |-> ok]

\* a constructor that tries the local transformer pipeline before Ollama
NewProcessor_hf_first(env) ==
    LET prompts == load_prompts(env.yaml)
        o == init_ollama(env)
        h == init_huggingface(env)
        a == init_openai(env)
        Built(method, probes) ==
            [ok |-> TRUE, error |-> "", probes |-> probes,
             self |-> [extraction_method |-> method, prompts |-> prompts]]
        Failed(error, probes) ==
            [ok |-> FALSE, error |-> error, probes |-> probes, self |-> None]
    IN  IF prompts = None THEN Failed("AttributeError", <<>>)
        ELSE IF h THEN Built("huggingface", <<Probe("huggingface", h)>>)
        ELSE IF o THEN Built("ollama",
                             <<Probe("huggingface", h), Probe("ollama", o)>>)
        ELSE IF a THEN Built("openai",
                             <<Probe("huggingface", h), Probe("ollama", o),
                               Probe("openai", a)>>)
        ELSE Failed("RuntimeError",
                    <<Probe("huggingface", h), Probe("ollama", o),
                      Probe("openai", a)>>)

\* a constructor that does not raise when every probe fails
NewProcessor_no_raise(env) ==
    LET prompts == load_prompts(env.yaml)
        o == init_ollama(env)
        h == init_huggingface(env)
        a == init_openai(env)
        Built(method, probes) ==
            [ok |-> TRUE, error |-> "", probes |-> probes,
             self |-> [extraction_method |-> method, prompts |-> prompts]]
    IN  IF prompts = None
        THEN [ok |-> FALSE, error |-> "AttributeError", probes |-> <<>>,
              self |-> None]
        ELSE IF o THEN Built("ollama", <<Probe("ollama", o)>>)
        ELSE IF h THEN Built("huggingface",
                             <<Probe("ollama", o), Probe("huggingface", h)>>)
        ELSE IF a THEN Built("openai",
                             <<Probe("ollama", o), Probe("huggingface", h),
                               Probe("openai", a)>>)
        ELSE Built("none",
                   <<Probe("ollama", o), Probe("huggingface", h),
                     Probe("openai", a)>>)

\* Processor.__init__.  probes lists the probes made, in order, with their
\* results.
NewProcessor(env) ==
    LET prompts == load_prompts(env.yaml)
        o == init_ollama(env)
        h == init_huggingface(env)
        a == init_openai(env)
        Built(method, probes) ==
            [ok |-> TRUE, error |-> "", probes |-> probes,
             self |-> [extraction_method |-> method, prompts |-> prompts]]
        Failed(error, probes) ==
            [ok |-> FALSE, error |-> error, probes |-> probes, self |-> None]
    IN  IF prompts = None THEN Failed("AttributeError", <<>>)
        ELSE IF o THEN Built("ollama", <<Probe("ollama", o)>>)
        ELSE IF h THEN Built("huggingface",
                             <<Probe("ollama", o), Probe("huggingface", h)>>)
        ELSE IF a THEN Built("openai",
                             <<Probe("ollama", o), Probe("huggingface", h),
                               Probe("openai", a)>>)
        ELSE Failed("RuntimeError",
                    <<Probe("ollama", o), Probe("huggingface", h),
                      Probe("openai", a)>>)

\* src/snap_ai/processor.py, Processor.__init__ of the application in app.py:
\* the same probe chain; no prompt file is read.
legacy_NewProcessor(env) == NewProcessor([env EXCEPT !.yaml = "missing"])

\* src/snap_ai/processor.py, process_document of the application in app.py:
\* the same pipeline with the prompts written into the adapters (no template
\* is formatted) and no post-processing step.
legacy_process_document(self, text, q, w) ==
    LET c == classify_document(q)
        adapter == Dispatch(self)
        extracted ==
            IF adapter = "openai" /\ w.kind = "build_error"
            THEN Raised("ChainConstructionError")
            ELSE IF adapter = "none"
            THEN Returned([error |-> Str("No extraction method available")])
            ELSE IF w.kind = "ok" THEN Returned(parse_json_response(w.response))
            ELSE IF adapter = "ollama" /\ w.kind = "status" THEN Returned(ErrorOnly)
            ELSE Returned(ErrorWithRaw)
        overall_confidence == calculate_confidence(c.confidence, extracted.data)
        confidence_level == get_confidence_level(overall_confidence)
    IN  IF extracted.raised # ""
        THEN [self |-> self, adapter |-> adapter, raised |-> extracted.raised,
              result |-> None]
        ELSE [self |-> self, adapter |-> adapter, raised |-> "",
              result |-> [document_type |-> c.prediction,
                          ml_confidence |-> c.confidence,
                          overall_confidence |-> overall_confidence,
                          confidence_level |-> confidence_level,
                          needs_human_review |-> (confidence_level = "low"),
                          extracted_data |-> extracted.data,
                          extraction_method |-> self.extraction_method,
                          raw_text |-> text]]

\* ------------------------------------------------------- pydantic models
DocumentType == {"invoice", "contract", "form", "receipt", "unknown"}
ConfidenceLevel == {"high", "medium", "low"}
ExtractionMethod == {"ollama", "huggingface", "openai"}

\* ProcessingResult(**fields): the model validates its fields and raises a
\* ValidationError when one of them is outside its type.
ProcessingResult(fields) ==
    IF /\ fields.document_type \in DocumentType
       /\ fields.ml_confidence >= 0 /\ fields.ml_confidence <= Scale
       /\ fields.overall_confidence >= 0 /\ fields.overall_confidence <= Scale
       /\ fields.confidence_level \in ConfidenceLevel
       /\ fields.extraction_method \in ExtractionMethod
    THEN [raised |-> "", value |-> fields]
    ELSE [raised |-> "ValidationError", value |-> None]

\* The fields of ProcessingResult; assigning any other attribute raises.
ProcessingResultFields ==
    {"document_type", "ml_confidence", "overall_confidence", "confidence_level",
     "extraction_method", "model_display_name", "processing_time",
     "needs_human_review", "extracted_data", "uploaded_file", "file_size",
     "file_type", "raw_text"}

\* ------------------------------------------------------------ file names
\* Sample upload names, with what pathlib and str give for them.
Filenames ==
    {"", "invoice.txt", "notes.docx", "scan.PDF", "photo.jpg", "captured_image",
     "README"}

\* Path(filename).suffix
PathSuffix(filename) ==
    CASE filename = "invoice.txt" -> ".txt"
      [] filename = "notes.docx" -> ".docx"
      [] filename = "scan.PDF" -> ".PDF"
      [] filename = "photo.jpg" -> ".jpg"
      [] OTHER -> ""

\* str.lower
Lower(ext) == IF ext = ".PDF" THEN ".pdf" ELSE ext

\* filename.startswith('captured_image')
StartsWithCaptured(filename) == filename = "captured_image"

ALLOWED_TYPES == {".txt", ".pdf", ".png", ".jpg", ".jpeg"}

\* An upload: its name, its size in bytes and whether its bytes are a valid
\* file of its kind.
Upload(filename, size, content) ==
    [filename |-> filename, size |-> size, content |-> content]

Sizes == {1, MAX_FILE_SIZE, MAX_FILE_SIZE + 1}

Uploads == [filename : Filenames, size : Sizes, content : {"valid", "corrupt"}]

\* The extension the file is handled as.
FileExt(filename) ==
    IF StartsWithCaptured(filename) /\ Lower(PathSuffix(filename)) = ""
    THEN ".jpg"
    ELSE Lower(PathSuffix(filename))

\* a validation that lets a file of any size through
validate_file_any_size(filename, file_size) ==
    IF filename = "" THEN "ValueError: No file selected"
    ELSE IF FileExt(filename) \notin ALLOWED_TYPES
    THEN "ValueError: File type not supported"
    ELSE ""

\* FileHandler.validate_file / FileService.validate_file: the ValueError it
\* raises, "" when the file is accepted.
validate_file(filename, file_size) ==
    IF filename = "" THEN "ValueError: No file selected"
    ELSE IF FileExt(filename) \notin ALLOWED_TYPES
    THEN "ValueError: File type not supported"
    ELSE IF file_size > MAX_FILE_SIZE THEN "ValueError: File size exceeds limit"
    ELSE ""

\* FileHandler.analyze_file / FileService.analyze_file
analyze_file(up) ==
    LET error == validate_file(up.filename, up.size)
    IN  IF error # "" THEN [raised |-> error, file_info |-> None]
        ELSE [raised |-> "",
              file_info |-> [filename |-> up.filename, size_bytes |-> up.size,
                             file_type |-> FileExt(up.filename),
                             is_camera_capture |-> StartsWithCaptured(up.filename)]]

\* ------------------------------------------------------- text extraction
\* backend/src/core/textract_core.py extract_text_from_file.  ocr tells
\* whether pytesseract and PIL are installed.
extract_text_from_file(file_ext, content, ocr) ==
    IF file_ext = ".txt"
    THEN (IF content = "valid" THEN [raised |-> "", text |-> "text"]
          ELSE [raised |-> "UnicodeDecodeError", text |-> ""])
    ELSE IF file_ext = ".pdf"
    THEN (IF content = "valid" THEN [raised |-> "", text |-> "text"]
          ELSE [raised |-> "HTTPException 500: PDF processing error", text |-> ""])
    ELSE IF file_ext \in {".png", ".jpg", ".jpeg"}
    THEN (IF ~ocr THEN [raised |-> "HTTPException 500: pytesseract/PIL not installed",
                        text |-> ""]
          ELSE IF content = "valid" THEN [raised |-> "", text |-> "text"]
          ELSE [raised |-> "", text |-> "diagnostic"])
    ELSE [raised |-> "HTTPException 400: Unsupported file type", text |-> ""]

\* src/snap_ai/utils.py extract_text_from_file
legacy_extract_text_from_file(file_ext, content, ocr) ==
    IF file_ext = ".txt"
    THEN (IF content = "valid" THEN [raised |-> "", text |-> "text"]
          ELSE [raised |-> "UnicodeDecodeError", text |-> ""])
    ELSE IF file_ext = ".pdf"
    THEN (IF content = "valid" THEN [raised |-> "", text |-> "text"]
          ELSE [raised |-> "PdfReadError", text |-> ""])
    ELSE IF file_ext \in {".png", ".jpg", ".jpeg"}
    THEN (IF ~ocr THEN [raised |-> "HTTPException 500: pytesseract/PIL not installed",
                        text |-> ""]
          ELSE IF content = "valid" THEN [raised |-> "", text |-> "text"]
          ELSE [raised |-> "UnidentifiedImageError", text |-> ""])
    ELSE [raised |-> "HTTPException 400: Unsupported file type", text |-> ""]

\* ------------------------------------------------------ document services
\* F applied to the value of x, with x worked out once.
Once(x, F(_)) == CHOOSE r \in {F(v) : v \in {x}} : TRUE

\* a temp file named after the upload alone
TempPath_by_name(uuid, filename) == [uuid |-> 0, name |-> filename]

\* A temp file in uploads/: "<uuid>_<filename>", or "temp_<filename>" (uuid 0).
TempPath(uuid, filename) == [uuid |-> uuid, name |-> filename]

\* str(uuid.uuid4()): a name no file in uploads/ has.
NewUuid(fs) == CHOOSE u \in 1..(Cardinality(fs) + 1) : \A f \in fs : f.uuid # u

\* What a request handler did: the steps it ran, the exception that left it
\* ("" if none), what it returned, the temp files it wrote and the files in
\* uploads/ when it ended.
Outcome(steps, raised, body, written, fs) ==
    [steps |-> steps, raised |-> raised, body |-> body, written |-> written,
     disk |-> fs]

\* a conversion that marks every result for review
convert_to_processing_result_always_review(raw_result, file_info) ==
    ProcessingResult(
        [document_type |-> raw_result.document_type,
         ml_confidence |-> raw_result.ml_confidence,
         overall_confidence |-> raw_result.overall_confidence,
         confidence_level |-> raw_result.confidence_level,
         extraction_method |-> raw_result.extraction_method,
         needs_human_review |-> TRUE,
         extracted_data |-> raw_result.extracted_data,
         uploaded_file |-> file_info.filename,
         file_size |-> file_info.size_bytes,
         file_type |-> file_info.file_type,
         raw_text |-> raw_result.raw_text])

\* DocumentService._convert_to_processing_result
convert_to_processing_result(raw_result, file_info) ==
    ProcessingResult(
        [document_type |-> raw_result.document_type,
         ml_confidence |-> raw_result.ml_confidence,
         overall_confidence |-> raw_result.overall_confidence,
         confidence_level |-> raw_result.confidence_level,
         extraction_method |-> raw_result.extraction_method,
         needs_human_review |-> raw_result.needs_human_review,
         extracted_data |-> raw_result.extracted_data,
         uploaded_file |-> file_info.filename,
         file_size |-> file_info.size_bytes,
         file_type |-> file_info.file_type,
         raw_text |-> raw_result.raw_text])

\* DocumentService.quick_scan, and DocumentProcessingService
\* .process_single_document, which is the same code.
quick_scan(self, fs, up, uuid, ocr, d, w) ==
    LET info == analyze_file(up)
        temp_path == TempPath(uuid, up.filename)
        saved == fs \cup {temp_path}
        cleaned == saved \ {temp_path}
        text == extract_text_from_file(info.file_info.file_type, up.content, ocr)
        Converted(raw) ==
            Once(convert_to_processing_result(raw.result, info.file_info),
                 LAMBDA result :
                    Outcome(<<"validate", "save", "extract", "process",
                              "convert", "cleanup">>, result.raised,
                            result.value, {temp_path}, cleaned))
        Processed(raw) ==
            IF raw.raised # ""
            THEN Outcome(<<"validate", "save", "extract", "process", "cleanup">>,
                         raw.raised, None, {temp_path}, cleaned)
            ELSE Converted(raw)
    IN  IF info.raised # ""
        THEN Outcome(<<"validate">>, info.raised, None, {}, fs)
        ELSE IF text.raised # ""
        THEN Outcome(<<"validate", "save", "extract", "cleanup">>, text.raised,
                     None, {temp_path}, cleaned)
        ELSE Once(process_document(self, d.text, d.q, w), Processed)

\* DocumentService.document_workflow.  The storage client is a stub whose
\* calls always succeed.
document_workflow(self, fs, up, uuid, ocr, d, w) ==
    LET Stored(scan) ==
            IF scan.raised # "" THEN scan
            ELSE Outcome(<<"validate", "save", "extract", "process", "convert",
                           "store", "cleanup">>, "",
                         [processing_result |-> scan.body,
                          storage_location |-> "gs://snap-ai-documents"],
                         scan.written, scan.disk)
    IN  Once(quick_scan(self, fs, up, uuid, ocr, d, w), Stored)

\* The record a batch puts in the place of a document whose handling raised.
error_result(filename, message) ==
    ProcessingResult(
        [document_type |-> "unknown",
         ml_confidence |-> 0,
         overall_confidence |-> 0,
         confidence_level |-> "low",
         extraction_method |-> "none",
         needs_human_review |-> TRUE,
         extracted_data |-> [error |-> Str(message)],
         uploaded_file |-> filename])

\* setattr(result, name, value) on a ProcessingResult
SetAttr(name) == IF name \in ProcessingResultFields THEN "" ELSE "ValueError"

\* hasattr(result, name)
HasAttr(name) == name \in ProcessingResultFields

BatchStart(fs) ==
    [raised |-> "", results |-> <<>>, handled |-> <<>>, written |-> {}, disk |-> fs]

BatchBody(files, acc) ==
    [total_documents |-> Len(files),
     successful |-> Cardinality({i \in 1..Len(acc.results) :
                       "error" \notin DOMAIN acc.results[i].extracted_data}),
     failed |-> Cardinality({i \in 1..Len(acc.results) :
                       "error" \in DOMAIN acc.results[i].extracted_data}),
     results |-> acc.results]

\* The loop of a batch over files[i..].  tag is whether the loop assigns
\* batch_index without asking hasattr first.  acc.handled keeps, for each
\* document handled so far, how its own handling ended.
RECURSIVE batch_loop(_, _, _, _, _, _, _, _)
batch_loop(self, files, i, ocr, d, w, tag, acc) ==
    LET Handled(one) ==
            LET tagged == IF one.raised # "" THEN one.raised
                          ELSE IF tag \/ HasAttr("batch_index")
                               THEN SetAttr("batch_index") ELSE ""
                failure == error_result(files[i].filename, tagged)
                seen == [acc EXCEPT !.handled = Append(@, [raised |-> one.raised,
                                                            body |-> one.body]),
                                    !.written = @ \cup one.written,
                                    !.disk = one.disk]
                Continue(next) ==
                    batch_loop(self, files, i + 1, ocr, d, w, tag, next)
            IN  IF tagged = ""
                THEN Once([seen EXCEPT !.results = Append(@, one.body)], Continue)
                ELSE IF failure.raised # ""
                THEN [seen EXCEPT !.raised = failure.raised]
                ELSE IF (tag \/ HasAttr("batch_index"))
                        /\ SetAttr("batch_index") # ""
                THEN [seen EXCEPT !.raised = SetAttr("batch_index")]
                ELSE Once([seen EXCEPT !.results = Append(@, failure.value)],
                          Continue)
    IN  IF i > Len(files) THEN acc
        ELSE Once(quick_scan(self, acc.disk, files[i], NewUuid(acc.disk), ocr, d, w),
                  Handled)

BatchOutcome(files, acc) ==
    [steps |-> <<"batch">>, raised |-> acc.raised,
     body |-> IF acc.raised = "" THEN BatchBody(files, acc) ELSE None,
     written |-> acc.written, disk |-> acc.disk, handled |-> acc.handled]

\* DocumentService.batch_quick_scan
batch_quick_scan(self, fs, files, ocr, d, w) ==
    Once(batch_loop(self, files, 1, ocr, d, w, FALSE, BatchStart(fs)),
         LAMBDA acc : BatchOutcome(files, acc))

\* DocumentProcessingService.process_batch_documents
process_batch_documents(self, fs, files, ocr, d, w) ==
    Once(batch_loop(self, files, 1, ocr, d, w, TRUE, BatchStart(fs)),
         LAMBDA acc : BatchOutcome(files, acc))

\* app.py upload_file.  An exception inside the handler is caught and shown
\* on the upload page.
upload_file(proc, fs, up, uuid, ocr, d, w) ==
    LET file_ext == FileExt(up.filename)
        file_path == TempPath(uuid, up.filename)
        saved == fs \cup {file_path}
        text == legacy_extract_text_from_file(file_ext, up.content, ocr)
        ErrorPage(message) == [page |-> "upload.html", error |-> message]
        Processed(raw) ==
            IF raw.raised # ""
            THEN Outcome(<<"validate", "save", "extract", "process">>, "",
                         ErrorPage(raw.raised), {file_path}, saved)
            ELSE Outcome(<<"validate", "save", "extract", "process", "cleanup">>,
                         "", [page |-> "results.html", result |-> raw.result],
                         {file_path}, saved \ {file_path})
    IN  IF proc = None
        THEN Outcome(<<>>, "HTTPException 500: Processor not initialized", None,
                     {}, fs)
        ELSE IF up.filename = ""
        THEN Outcome(<<"validate">>, "", ErrorPage("No file selected"), {}, fs)
        ELSE IF file_ext \notin ALLOWED_TYPES
        THEN Outcome(<<"validate">>, "", ErrorPage("File type not supported"),
                     {}, fs)
        ELSE IF text.raised # ""
        THEN Outcome(<<"validate", "save", "extract">>, "",
                     ErrorPage(text.raised), {file_path}, saved)
        ELSE Once(legacy_process_document(proc, d.text, d.q, w), Processed)

\* app.py api_process_document
api_process_document(proc, fs, up, ocr, d, w) ==
    LET file_ext == Lower(PathSuffix(up.filename))
        temp_path == TempPath(0, up.filename)
        saved == fs \cup {temp_path}
        text == legacy_extract_text_from_file(file_ext, up.content, ocr)
        Processed(raw) ==
            IF raw.raised # ""
            THEN Outcome(<<"save", "extract", "process">>, "HTTPException 500",
                         None, {temp_path}, saved)
            ELSE Outcome(<<"save", "extract", "process", "cleanup">>, "",
                         raw.result, {temp_path}, saved \ {temp_path})
    IN  IF proc = None
        THEN Outcome(<<>>, "HTTPException 500: Processor not initialized", None,
                     {}, fs)
        ELSE IF text.raised # ""
        THEN Outcome(<<"save", "extract">>, "HTTPException 500", None,
                     {temp_path}, saved)
        ELSE Once(legacy_process_document(proc, d.text, d.q, w), Processed)

\* ------------------------------------------------------------------ state
VARIABLES
    processor,      \* the Processor instance, None before construction
    construction,   \* how the one construction ended and which prompts.yaml
                    \* was there, None before it
    probe_log,      \* every backend probe made so far, in order
    call,           \* the process_document call that has ended and whose
                    \* outcome the caller holds, None between calls
    app,            \* which application runs: "backend" (backend/src/main.py),
                    \* "snap_ai" (src/snap_ai/main.py), "legacy"
                    \* (src/snap_ai/app.py), or "processor" when the Processor
                    \* is used on its own
    phase,          \* "starting", "running", "startup_failed" or "stopped";
                    \* "library" when there is no application
    storage_client, \* the second global of the application: the StorageClient
                    \* (backend) or the DocumentProcessingService (snap_ai)
    disk,           \* the temp files in uploads/
    response,       \* the outcome of the request that has ended, None between
                    \* requests
    workflow_services, \* the WorkflowService instances made so far: for each
                    \* one its active_workflows, workflow id -> status
    tasks,          \* the coroutines of the requests served concurrently:
                    \* where each one stands and what it holds
    contents,       \* for each temp file in uploads/, whose bytes it holds
    lifecycle       \* what initialize_services and cleanup_services did so
                    \* far, None when the service globals are not followed

vars == <<processor, construction, probe_log, call, app, phase, storage_client,
          disk, response, workflow_services, tasks, contents, lifecycle>>

async_vars == <<workflow_services, tasks, contents, lifecycle>>

\* No request is in flight and no workflow service was made.
NoTasks ==
    /\ workflow_services = <<>>
    /\ tasks = <<>>
    /\ contents = <<>>
    /\ lifecycle = None

service_vars == <<app, phase, storage_client, disk, response>>

Init ==
    /\ processor = None
    /\ construction = None
    /\ probe_log = <<>>
    /\ call = None
    /\ app = "processor"
    /\ phase = "library"
    /\ storage_client = None
    /\ disk = {}
    /\ response = None
    /\ NoTasks

\* Processor(): the constructor runs once, at startup.
Construct ==
    /\ phase = "library"
    /\ construction = None
    /\ \E env \in Environments :
          LET n == NewProcessor(env)
          IN  /\ construction' = [ok |-> n.ok, error |-> n.error,
                                  yaml |-> env.yaml]
              /\ probe_log' = probe_log \o n.probes
              /\ processor' = IF n.ok THEN n.self ELSE processor
    /\ UNCHANGED <<async_vars, call, service_vars>>

\* One call of processor.process_document(text).
ProcessDocument ==
    /\ phase = "library"
    /\ processor # None
    /\ call = None
    /\ \E d \in Documents, w \in WorldOutcomes(processor.extraction_method) :
          LET r == process_document(processor, d.text, d.q, w)
          IN  /\ processor' = r.self
              /\ call' = [adapter |-> r.adapter, raised |-> r.raised,
                          result |-> r.result, world |-> w.kind,
                          label |-> r.label, q |-> d.q,
                          response |-> w.response]
    /\ UNCHANGED <<async_vars, construction, probe_log, service_vars>>

\* The caller takes the outcome of the call.
CallReturns ==
    /\ call # None
    /\ call' = None
    /\ UNCHANGED <<async_vars, processor, construction, probe_log, service_vars>>

Next ==
    \/ Construct
    \/ ProcessDocument
    \/ CallReturns

Spec == Init /\ [][Next]_vars

\* ---------------------------------------------------------- applications
Apps == {"backend", "snap_ai", "legacy"}

InitService ==
    /\ processor = None
    /\ construction = None
    /\ probe_log = <<>>
    /\ call = None
    /\ app \in Apps
    /\ phase = "starting"
    /\ storage_client = None
    /\ disk = {}
    /\ response = None
    /\ NoTasks

\* backend/src/main.py lifespan, startup half, with initialize_services of
\* service_manager.py: the exception of a failed construction is raised again.
BackendStartup ==
    /\ app = "backend"
    /\ phase = "starting"
    /\ \E env \in Environments :
          LET n == NewProcessor(env)
          IN  /\ construction' = [ok |-> n.ok, error |-> n.error,
                                  yaml |-> env.yaml]
              /\ probe_log' = probe_log \o n.probes
              /\ processor' = IF n.ok THEN n.self ELSE processor
              /\ storage_client' = IF n.ok THEN "StorageClient" ELSE storage_client
              /\ phase' = IF n.ok THEN "running" ELSE "startup_failed"
    /\ UNCHANGED <<async_vars, call, app, disk, response>>

\* src/snap_ai/main.py lifespan, startup half, with initialize_services of
\* dependencies.py.
SnapAiStartup ==
    /\ app = "snap_ai"
    /\ phase = "starting"
    /\ \E env \in Environments :
          LET n == NewProcessor(env)
          IN  /\ construction' = [ok |-> n.ok, error |-> n.error,
                                  yaml |-> env.yaml]
              /\ probe_log' = probe_log \o n.probes
              /\ processor' = IF n.ok THEN n.self ELSE processor
              /\ storage_client' = IF n.ok THEN "DocumentProcessingService"
                                   ELSE storage_client
              /\ phase' = IF n.ok THEN "running" ELSE "startup_failed"
    /\ UNCHANGED <<async_vars, call, app, disk, response>>

\* src/snap_ai/app.py lifespan, startup half: the except clause prints the
\* exception and the hook goes on to yield.
LegacyStartup ==
    /\ app = "legacy"
    /\ phase = "starting"
    /\ \E env \in Environments :
          LET n == legacy_NewProcessor(env)
          IN  /\ construction' = [ok |-> n.ok, error |-> n.error,
                                  yaml |-> env.yaml]
              /\ probe_log' = probe_log \o n.probes
              /\ processor' = IF n.ok THEN n.self ELSE processor
              /\ phase' = "running"
    /\ UNCHANGED <<async_vars, call, app, storage_client, disk, response>>

\* The shutdown half of the lifespan hooks: cleanup_services drops both
\* globals; app.py only prints.
Shutdown ==
    /\ phase = "running"
    /\ response = None
    /\ phase' = "stopped"
    /\ processor' = IF app = "legacy" THEN processor ELSE None
    /\ storage_client' = None
    /\ UNCHANGED <<async_vars, construction, probe_log, call, app, disk, response>>

\* ------------------------------------------------------------- requests
\* The uploads, documents and backend behaviours the requests are tried with.
ServiceUploads ==
    {Upload("invoice.txt", 1, "valid"),
     Upload("invoice.txt", 1, "corrupt"),
     Upload("invoice.txt", MAX_FILE_SIZE + 1, "valid"),
     Upload("notes.docx", 1, "valid"),
     Upload("scan.PDF", MAX_FILE_SIZE, "valid"),
     Upload("photo.jpg", 1, "corrupt"),
     Upload("captured_image", 1, "valid"),
     Upload("", 1, "valid")}

BatchUploads ==
    {Upload("invoice.txt", 1, "valid"),
     Upload("invoice.txt", 1, "corrupt"),
     Upload("notes.docx", 1, "valid"),
     Upload("photo.jpg", 1, "valid")}

RECURSIVE Batches(_)
Batches(n) ==
    IF n = 0 THEN {<<>>}
    ELSE Batches(n - 1) \cup
         {Append(b, up) : b \in {x \in Batches(n - 1) : Len(x) = n - 1},
                          up \in BatchUploads}

ServiceDocuments ==
    {Doc(40, <<0, 0, 600, 0>>), Doc(120, <<300, 300, 0, 0>>),
     Doc(40, <<0, 0, 150, 450>>), Doc(120, <<0, 450, 150, 0>>)}

ServiceWorlds(method) ==
    {w \in WorldOutcomes(method) : w.kind = "ok" => w.response = <<"{", "v", "}">>}

Request(handler, files, out) ==
    [handler |-> handler, files |-> files, steps |-> out.steps,
     raised |-> out.raised, body |-> out.body, written |-> out.written,
     handled |-> IF "handled" \in DOMAIN out THEN out.handled ELSE <<>>]

\* POST quick-scan of the backend application.
QuickScan ==
    /\ app = "backend" /\ phase = "running" /\ response = None
    /\ \E up \in ServiceUploads, ocr \in BOOLEAN, d \in ServiceDocuments,
          w \in ServiceWorlds(processor.extraction_method) :
          \E out \in {quick_scan(processor, disk, up, NewUuid(disk), ocr, d, w)} :
              /\ response' = Request("quick_scan", <<up>>, out)
              /\ disk' = out.disk
    /\ UNCHANGED <<async_vars, processor, construction, probe_log, call, app, phase,
                   storage_client>>

\* POST document workflow of the backend application.
DocumentWorkflow ==
    /\ app = "backend" /\ phase = "running" /\ response = None
    /\ \E up \in ServiceUploads, ocr \in BOOLEAN, d \in ServiceDocuments,
          w \in ServiceWorlds(processor.extraction_method) :
          \E out \in {document_workflow(processor, disk, up, NewUuid(disk), ocr,
                                       d, w)} :
              /\ response' = Request("document_workflow", <<up>>, out)
              /\ disk' = out.disk
    /\ UNCHANGED <<async_vars, processor, construction, probe_log, call, app, phase,
                   storage_client>>

\* POST batch scan of the backend application.
BatchQuickScan ==
    /\ app = "backend" /\ phase = "running" /\ response = None
    /\ \E files \in Batches(MaxBatch), ocr \in BOOLEAN, d \in ServiceDocuments,
          w \in ServiceWorlds(processor.extraction_method) :
          \E out \in {batch_quick_scan(processor, disk, files, ocr, d, w)} :
              /\ response' = Request("batch_quick_scan", files, out)
              /\ disk' = out.disk
    /\ UNCHANGED <<async_vars, processor, construction, probe_log, call, app, phase,
                   storage_client>>

\* Single-document request of the snap_ai application.
ProcessSingleDocument ==
    /\ app = "snap_ai" /\ phase = "running" /\ response = None
    /\ \E up \in ServiceUploads, ocr \in BOOLEAN, d \in ServiceDocuments,
          w \in ServiceWorlds(processor.extraction_method) :
          \E out \in {quick_scan(processor, disk, up, NewUuid(disk), ocr, d, w)} :
              /\ response' = Request("process_single_document", <<up>>, out)
              /\ disk' = out.disk
    /\ UNCHANGED <<async_vars, processor, construction, probe_log, call, app, phase,
                   storage_client>>

\* Batch request of the snap_ai application.
ProcessBatchDocuments ==
    /\ app = "snap_ai" /\ phase = "running" /\ response = None
    /\ \E files \in Batches(MaxBatch), ocr \in BOOLEAN, d \in ServiceDocuments,
          w \in ServiceWorlds(processor.extraction_method) :
          \E out \in {process_batch_documents(processor, disk, files, ocr, d,
                                             w)} :
              /\ response' = Request("process_batch_documents", files, out)
              /\ disk' = out.disk
    /\ UNCHANGED <<async_vars, processor, construction, probe_log, call, app, phase,
                   storage_client>>

LegacyWorlds ==
    IF processor = None THEN {[kind |-> "exception", response |-> <<>>]}
    ELSE ServiceWorlds(processor.extraction_method)

\* POST /upload of app.py.
UploadFile ==
    /\ app = "legacy" /\ phase = "running" /\ response = None
    /\ Cardinality(disk) < MaxFiles
    /\ \E up \in ServiceUploads, ocr \in BOOLEAN, d \in ServiceDocuments,
          w \in LegacyWorlds :
          \E out \in {upload_file(processor, disk, up, NewUuid(disk), ocr, d, w)} :
              /\ response' = Request("upload_file", <<up>>, out)
              /\ disk' = out.disk
    /\ UNCHANGED <<async_vars, processor, construction, probe_log, call, app, phase,
                   storage_client>>

\* POST /api/process of app.py.
ApiProcessDocument ==
    /\ app = "legacy" /\ phase = "running" /\ response = None
    /\ Cardinality(disk) < MaxFiles
    /\ \E up \in ServiceUploads, ocr \in BOOLEAN, d \in ServiceDocuments,
          w \in LegacyWorlds :
          \E out \in {api_process_document(processor, disk, up, ocr, d, w)} :
              /\ response' = Request("api_process_document", <<up>>, out)
              /\ disk' = out.disk
    /\ UNCHANGED <<async_vars, processor, construction, probe_log, call, app, phase,
                   storage_client>>

\* The response goes out; the application waits for the next request.
ResponseSent ==
    /\ response # None
    /\ response' = None
    /\ UNCHANGED <<async_vars, processor, construction, probe_log, call, app, phase,
                   storage_client, disk>>

NextService ==
    \/ BackendStartup
    \/ SnapAiStartup
    \/ LegacyStartup
    \/ QuickScan
    \/ DocumentWorkflow
    \/ BatchQuickScan
    \/ ProcessSingleDocument
    \/ ProcessBatchDocuments
    \/ UploadFile
    \/ ApiProcessDocument
    \/ ResponseSent
    \/ Shutdown

SpecService == InitService /\ [][NextService]_vars

\* ------------------------------------------------- the functions alone
\* One call of one function of the Processor or the PromptLoader on given
\* arguments: the call is held in `call` and the action of the function
\* fills in what it returns.
MlConfidences == {0, 150, 300, 450, 600}

DataKeys == {"error", "vendor_name", "total_amount", "raw_response"}

\* Every dictionary over DataKeys with empty and non-empty string values.
ExtractedDatas ==
    UNION {[keys -> {Str(""), Str("Acme")}] : keys \in SUBSET DataKeys}

PureCall(fn, args) == [fn |-> fn, args |-> args, returned |-> FALSE, out |-> None]

ConfidenceCalls ==
    {PureCall("calculate_confidence", [ml_confidence |-> ml, extracted_data |-> data]) :
        ml \in MlConfidences, data \in ExtractedDatas}

CalculateConfidence ==
    /\ call.fn = "calculate_confidence" /\ ~call.returned
    /\ call' = [call EXCEPT
                  !.returned = TRUE,
                  !.out = [overall_confidence |->
                              calculate_confidence(call.args.ml_confidence,
                                                   call.args.extracted_data),
                           data_completeness |->
                              data_completeness(call.args.extracted_data)]]
    /\ UNCHANGED <<async_vars, processor, construction, probe_log, service_vars>>

ParseCalls ==
    {PureCall("parse_json_response", [response |-> r]) : r \in RawOutputs}

ParseJsonResponse ==
    /\ call.fn = "parse_json_response" /\ ~call.returned
    /\ call' = [call EXCEPT !.returned = TRUE,
                            !.out = parse_json_response(call.args.response)]
    /\ UNCHANGED <<async_vars, processor, construction, probe_log, service_vars>>

\* Catalogs a PromptLoader can hold: what each prompts.yaml loads as, and
\* two mappings in which one of the top-level keys is absent.
NoDefaultCatalog == [document_types |-> [invoice |-> [ollama |-> <<"L", "T">>]]]

NoTypesCatalog == [default |-> [openai |-> <<"T", "L">>]]

SampleCatalogs ==
    {load_prompts(y) : y \in YamlFiles} \cup {NoDefaultCatalog, NoTypesCatalog}

Methods == {"ollama", "huggingface", "openai"}

GetPromptCalls ==
    {PureCall("get_prompt", [prompts |-> c, doc_type |-> t, method |-> m]) :
        c \in SampleCatalogs, t \in {TrainingLabels[i] : i \in 1..4}, m \in Methods}

GetPrompt ==
    /\ call.fn = "get_prompt" /\ ~call.returned
    /\ call' = [call EXCEPT !.returned = TRUE,
                            !.out = get_prompt_call(call.args.prompts,
                                                    call.args.doc_type,
                                                    call.args.method)]
    /\ UNCHANGED <<async_vars, processor, construction, probe_log, service_vars>>

\* Every template of at most MaxTpl tokens, each in a catalog of its own.
Templates == UNION {[1..n -> TemplateTokens] : n \in 1..MaxTpl}

OneTemplateCatalog(tpl) == [document_types |-> [invoice |-> [ollama |-> tpl]]]

TextLengths == {0, 40, 299, 300, 301, 500}

FormatCalls ==
    {PureCall("format_prompt", [prompts |-> OneTemplateCatalog(tpl),
                                doc_type |-> "invoice", method |-> "ollama",
                                text |-> n]) :
        tpl \in Templates, n \in TextLengths}

FormatPrompt ==
    /\ call.fn = "format_prompt" /\ ~call.returned
    /\ call' = [call EXCEPT !.returned = TRUE,
                            !.out = format_prompt(call.args.prompts,
                                                  call.args.doc_type,
                                                  call.args.method,
                                                  call.args.text)]
    /\ UNCHANGED <<async_vars, processor, construction, probe_log, service_vars>>

\* Text extraction of a file of an accepted kind: legacy tells which of the
\* two extract_text_from_file is called.
ExtractCalls ==
    {PureCall("extract_text_from_file",
              [file_ext |-> e, content |-> c, ocr |-> o, legacy |-> l]) :
        e \in ALLOWED_TYPES, c \in {"valid", "corrupt"}, o \in BOOLEAN,
        l \in BOOLEAN}

ExtractTextFromFile ==
    /\ call.fn = "extract_text_from_file" /\ ~call.returned
    /\ call' = [call EXCEPT
                  !.returned = TRUE,
                  !.out = IF call.args.legacy
                          THEN legacy_extract_text_from_file(call.args.file_ext,
                                                             call.args.content,
                                                             call.args.ocr)
                          ELSE extract_text_from_file(call.args.file_ext,
                                                      call.args.content,
                                                      call.args.ocr)]
    /\ UNCHANGED <<async_vars, processor, construction, probe_log, service_vars>>

InitPure ==
    /\ processor = None
    /\ construction = None
    /\ probe_log = <<>>
    /\ call \in ConfidenceCalls \cup ParseCalls \cup GetPromptCalls \cup FormatCalls
                \cup ExtractCalls
    /\ app = "processor"
    /\ phase = "library"
    /\ storage_client = None
    /\ disk = {}
    /\ response = None
    /\ NoTasks

NextPure ==
    \/ CalculateConfidence
    \/ ParseJsonResponse
    \/ GetPrompt
    \/ FormatPrompt
    \/ ExtractTextFromFile

SpecPure == InitPure /\ [][NextPure]_vars

\* ------------------------------------------------------------ workflows
\* backend/src/services/workflow_service.py behind the routes of
\* backend/src/routes/workflow_routes.py, and the process-and-forward route
\* of src/snap_ai/routes/workflow.py.  A coroutine gives way to the others
\* where it awaits.
WorkflowUploads ==
    {Upload("invoice.txt", 1, "valid"), Upload("notes.docx", 1, "valid")}

WorkflowTypes == {"quick_scan", "document_workflow"}

\* webhook_url: not given, or a URL
WebhookUrls == {"", "https://hook"}

\* What the webhook does with the POST: it answers 200, it answers another
\* status, or the call times out or cannot connect.
WebhookOutcomes == {"200", "500", "timeout"}

WorkflowDocument == Doc(40, <<0, 0, 600, 0>>)

WorkflowWorld == [kind |-> "ok", response |-> <<"{", "v", "}">>]

\* The processors a started application can hold.
WorkflowProcessors ==
    {NewProcessor(env).self :
        env \in {e \in Environments : e.yaml = "missing" /\ NewProcessor(e).ok}}

\* WorkflowService.__init__: active_workflows = {}
NewWorkflowService == <<>>

\* str(uuid.uuid4()): an id no workflow has
NewWorkflowId ==
    1 + Cardinality(UNION {DOMAIN workflow_services[i] :
                              i \in 1..Len(workflow_services)})

\* active_workflows[workflow_id] = status
SetStatus(active_workflows, workflow_id, status) ==
    [id \in DOMAIN active_workflows \cup {workflow_id} |->
        IF id = workflow_id THEN status ELSE active_workflows[id]]

\* WorkflowService.get_workflow_status
get_workflow_status(active_workflows, workflow_id) ==
    IF workflow_id \in DOMAIN active_workflows
    THEN [workflow_id |-> workflow_id, status |-> active_workflows[workflow_id]]
    ELSE None

\* a delivery that lets a timeout or a connection error out
forward_to_webhook_raising(webhook) ==
    IF webhook = "timeout" THEN [raised |-> "TimeoutError", success |-> FALSE]
    ELSE [raised |-> "", success |-> (webhook = "200")]

\* WorkflowService._forward_to_webhook: True for status 200, False for
\* another status and for every exception
forward_to_webhook(webhook) ==
    [raised |-> "", success |-> (webhook = "200")]

\* src/snap_ai/routes/workflow.py _forward_to_webhook: prints what happened
\* and returns nothing
snap_forward_to_webhook(webhook) == [raised |-> "", success |-> None]

\* One request or call in flight.  route is "webhook" (POST
\* /api/workflow/webhook of the backend), "call" (process_and_forward called
\* on an instance the caller holds), "status" (GET /api/workflow/status/{id})
\* or "snap_webhook" (POST /api/workflow/process-and-forward of snap_ai).
Task(route, service, up, workflow_type, webhook_url) ==
    [route |-> route, service |-> service, pc |-> "start", workflow_id |-> 0,
     upload |-> up, workflow_type |-> workflow_type, webhook_url |-> webhook_url,
     webhook |-> "", forwarded |-> FALSE, raised |-> "", status |-> ""]

InitWorkflow ==
    /\ processor \in WorkflowProcessors
    /\ construction = None
    /\ probe_log = <<>>
    /\ call = None
    /\ app \in {"backend", "snap_ai"}
    /\ phase = "running"
    /\ storage_client = IF app = "backend" THEN "StorageClient"
                        ELSE "DocumentProcessingService"
    /\ disk = {}
    /\ response = None
    /\ workflow_services = <<>>
    /\ tasks = <<>>
    /\ contents = <<>>
    /\ lifecycle = None

\* POST /api/workflow/webhook: get_workflow_service makes the WorkflowService
\* of this request.
WebhookRequest ==
    /\ app = "backend"
    /\ Len(tasks) < MaxTasks
    /\ \E up \in WorkflowUploads, type \in WorkflowTypes, url \in WebhookUrls :
          /\ workflow_services' = Append(workflow_services, NewWorkflowService)
          /\ tasks' = Append(tasks, Task("webhook", Len(workflow_services) + 1,
                                         up, type, url))
    /\ UNCHANGED <<processor, construction, probe_log, call, service_vars,
                   contents, lifecycle>>

\* process_and_forward called again on an instance that exists.
DirectCall ==
    /\ app = "backend"
    /\ Len(tasks) < MaxTasks
    /\ \E i \in 1..Len(workflow_services), up \in WorkflowUploads,
          type \in WorkflowTypes, url \in WebhookUrls :
          tasks' = Append(tasks, Task("call", i, up, type, url))
    /\ UNCHANGED <<processor, construction, probe_log, call, service_vars,
                   workflow_services, contents, lifecycle>>

\* process_and_forward up to the await of the document service: the id is
\* made and recorded as processing.
BeginWorkflow ==
    \E t \in 1..Len(tasks) :
        /\ tasks[t].route \in {"webhook", "call"}
        /\ tasks[t].pc = "start"
        /\ LET id == NewWorkflowId
               i == tasks[t].service
           IN  /\ workflow_services' =
                     [workflow_services EXCEPT
                         ![i] = SetStatus(@, id, "processing")]
               /\ tasks' = [tasks EXCEPT ![t].workflow_id = id,
                                         ![t].pc = "processing"]
        /\ UNCHANGED <<processor, construction, probe_log, call, service_vars,
                       contents, lifecycle>>

\* process_and_forward from the document service call to the await of the
\* webhook, or to its end when no webhook URL was given or the document
\* service raised.
ProcessWorkflow ==
    \E t \in 1..Len(tasks) :
        /\ tasks[t].route \in {"webhook", "call"}
        /\ tasks[t].pc = "processing"
        /\ LET k == tasks[t]
               i == k.service
           IN  \E out \in {IF k.workflow_type = "quick_scan"
                           THEN quick_scan(processor, disk, k.upload,
                                           NewUuid(disk), TRUE, WorkflowDocument,
                                           WorkflowWorld)
                           ELSE document_workflow(processor, disk, k.upload,
                                                  NewUuid(disk), TRUE,
                                                  WorkflowDocument,
                                                  WorkflowWorld)} :
                  /\ disk' = out.disk
                  /\ IF out.raised # ""
                     THEN /\ workflow_services' =
                                [workflow_services EXCEPT
                                    ![i] = SetStatus(@, k.workflow_id, "failed")]
                          /\ tasks' = [tasks EXCEPT ![t].pc = "done",
                                                    ![t].raised = out.raised]
                     ELSE IF k.webhook_url # ""
                     THEN /\ tasks' = [tasks EXCEPT ![t].pc = "forwarding"]
                          /\ UNCHANGED workflow_services
                     ELSE /\ workflow_services' =
                                [workflow_services EXCEPT
                                    ![i] = SetStatus(@, k.workflow_id, "completed")]
                          /\ tasks' = [tasks EXCEPT ![t].pc = "done"]
        /\ UNCHANGED <<processor, construction, probe_log, call, app, phase,
                       storage_client, response, contents, lifecycle>>

\* process_and_forward from the answer of the webhook to its end.
ForwardWorkflow ==
    \E t \in 1..Len(tasks) :
        /\ tasks[t].route \in {"webhook", "call"}
        /\ tasks[t].pc = "forwarding"
        /\ \E webhook \in WebhookOutcomes :
              LET k == tasks[t]
                  i == k.service
                  sent == forward_to_webhook(webhook)
              IN  IF sent.raised # ""
                  THEN /\ workflow_services' =
                             [workflow_services EXCEPT
                                 ![i] = SetStatus(@, k.workflow_id, "failed")]
                       /\ tasks' = [tasks EXCEPT ![t].pc = "done",
                                                 ![t].webhook = webhook,
                                                 ![t].raised = sent.raised]
                  ELSE /\ workflow_services' =
                             [workflow_services EXCEPT
                                 ![i] = SetStatus(@, k.workflow_id, "completed")]
                       /\ tasks' = [tasks EXCEPT ![t].pc = "done",
                                                 ![t].webhook = webhook,
                                                 ![t].forwarded = sent.success]
        /\ UNCHANGED <<processor, construction, probe_log, call, service_vars,
                       contents, lifecycle>>

\* The workflow ids the ended webhook requests gave to their clients.
ReturnedWorkflowIds ==
    {tasks[t].workflow_id :
        t \in {u \in 1..Len(tasks) : /\ tasks[u].route = "webhook"
                                     /\ tasks[u].pc = "done"
                                     /\ tasks[u].raised = ""}}

\* GET /api/workflow/status/{workflow_id}: get_workflow_service makes the
\* WorkflowService of this request, and workflow_status_api answers 404 when
\* get_workflow_status returns None.
StatusRequest ==
    /\ app = "backend"
    /\ Len(tasks) < MaxTasks
    /\ \E id \in ReturnedWorkflowIds :
          LET found == get_workflow_status(NewWorkflowService, id)
              asked == Task("status", Len(workflow_services) + 1,
                            Upload("", 0, "valid"), "", "")
          IN  /\ workflow_services' = Append(workflow_services, NewWorkflowService)
              /\ tasks' = Append(tasks,
                    [asked EXCEPT
                        !.pc = "done",
                        !.workflow_id = id,
                        !.raised = IF found = None THEN "HTTPException 404"
                                   ELSE "",
                        !.status = IF found = None THEN "" ELSE found.status])
    /\ UNCHANGED <<processor, construction, probe_log, call, service_vars,
                   contents, lifecycle>>

\* POST /api/workflow/process-and-forward of snap_ai, up to the await of the
\* document service.
SnapWebhookRequest ==
    /\ app = "snap_ai"
    /\ Len(tasks) < MaxTasks
    /\ \E up \in WorkflowUploads, url \in WebhookUrls :
          tasks' = Append(tasks,
                          [Task("snap_webhook", 0, up, "", url) EXCEPT
                              !.pc = "processing"])
    /\ UNCHANGED <<processor, construction, probe_log, call, service_vars,
                   workflow_services, contents, lifecycle>>

\* The route from the document service call to the await of the webhook, or
\* to its end.
SnapProcess ==
    \E t \in 1..Len(tasks) :
        /\ tasks[t].route = "snap_webhook"
        /\ tasks[t].pc = "processing"
        /\ \E out \in {quick_scan(processor, disk, tasks[t].upload, NewUuid(disk),
                                  TRUE, WorkflowDocument, WorkflowWorld)} :
              /\ disk' = out.disk
              /\ tasks' =
                    IF out.raised # ""
                    THEN [tasks EXCEPT ![t].pc = "done",
                                       ![t].raised = "HTTPException 500"]
                    ELSE IF tasks[t].webhook_url # ""
                    THEN [tasks EXCEPT ![t].pc = "forwarding"]
                    ELSE [tasks EXCEPT ![t].pc = "done"]
        /\ UNCHANGED <<processor, construction, probe_log, call, app, phase,
                       storage_client, response, workflow_services, contents,
                       lifecycle>>

\* The route from the answer of the webhook to its end: forwarded = True
\* follows the await of _forward_to_webhook.
SnapForward ==
    \E t \in 1..Len(tasks) :
        /\ tasks[t].route = "snap_webhook"
        /\ tasks[t].pc = "forwarding"
        /\ \E webhook \in WebhookOutcomes :
              LET sent == snap_forward_to_webhook(webhook)
              IN  tasks' =
                     IF sent.raised # ""
                     THEN [tasks EXCEPT ![t].pc = "done",
                                        ![t].webhook = webhook,
                                        ![t].raised = "HTTPException 500"]
                     ELSE [tasks EXCEPT ![t].pc = "done",
                                        ![t].webhook = webhook,
                                        ![t].forwarded = TRUE]
        /\ UNCHANGED <<processor, construction, probe_log, call, service_vars,
                       workflow_services, contents, lifecycle>>

NextWorkflow ==
    \/ WebhookRequest
    \/ DirectCall
    \/ BeginWorkflow
    \/ ProcessWorkflow
    \/ ForwardWorkflow
    \/ StatusRequest
    \/ SnapWebhookRequest
    \/ SnapProcess
    \/ SnapForward

SpecWorkflow == InitWorkflow /\ [][NextWorkflow]_vars

\* ------------------------------------------------------ service globals
\* backend/src/core/service_manager.py and src/snap_ai/dependencies.py: the
\* two module globals, the functions that set and drop them and the
\* accessors the requests use, called in any order.
LifecycleEnvironments ==
    {e \in Environments : /\ e.yaml \in {"missing", "empty"}
                          /\ e.ollama_tags \in {"200", "500"}
                          /\ e.hf_pipeline = "raises"
                          /\ ~e.langchain /\ ~e.api_key
                          /\ e.openai_client = "raises"}

\* The second global: _storage_client or _document_service.
SecondService(application) ==
    [class |-> IF application = "backend" THEN "StorageClient"
               ELSE "DocumentProcessingService"]

Globals(p, second) == [processor |-> p, second |-> second]

\* initialize_services: both globals are assigned when Processor() returns;
\* when it raises nothing is assigned and the exception is raised again.
initialize_services(globals, application, env) ==
    LET n == NewProcessor(env)
    IN  IF n.ok
        THEN [raised |-> "", probes |-> n.probes,
              globals |-> Globals(n.self, SecondService(application))]
        ELSE [raised |-> n.error, probes |-> n.probes, globals |-> globals]

\* a cleanup that drops the second global only
cleanup_services_keep_processor(globals) == Globals(globals.processor, None)

\* cleanup_services
cleanup_services(globals) == Globals(None, None)

\* get_processor
get_processor(globals) ==
    IF globals.processor = None
    THEN [raised |-> "HTTPException 503", value |-> None]
    ELSE [raised |-> "", value |-> globals.processor]

\* get_storage_client, and get_document_service of snap_ai
get_storage_client(globals) ==
    IF globals.second = None
    THEN [raised |-> "HTTPException 503", value |-> None]
    ELSE [raised |-> "", value |-> globals.second]

\* is_healthy
is_healthy(globals) == globals.processor # None /\ globals.second # None

Lifecycle(calls, initialized) == [calls |-> calls, initialized |-> initialized]

InitLifecycle ==
    /\ processor = None
    /\ construction = None
    /\ probe_log = <<>>
    /\ call = None
    /\ app \in {"backend", "snap_ai"}
    /\ phase = "starting"
    /\ storage_client = None
    /\ disk = {}
    /\ response = None
    /\ workflow_services = <<>>
    /\ tasks = <<>>
    /\ contents = <<>>
    /\ lifecycle = Lifecycle(0, FALSE)

InitializeServices ==
    /\ lifecycle.calls < MaxLifecycle
    /\ \E env \in LifecycleEnvironments :
          LET done == initialize_services(Globals(processor, storage_client),
                                          app, env)
          IN  /\ processor' = done.globals.processor
              /\ storage_client' = done.globals.second
              /\ construction' = [ok |-> done.raised = "", error |-> done.raised,
                                  yaml |-> env.yaml]
              /\ probe_log' = probe_log \o done.probes
              /\ phase' = IF done.raised = "" THEN "running" ELSE phase
              /\ lifecycle' = Lifecycle(lifecycle.calls + 1,
                                        lifecycle.initialized \/ done.raised = "")
    /\ UNCHANGED <<call, app, disk, response, workflow_services, tasks, contents>>

CleanupServices ==
    /\ lifecycle.calls < MaxLifecycle
    /\ LET globals == cleanup_services(Globals(processor, storage_client))
       IN  /\ processor' = globals.processor
           /\ storage_client' = globals.second
    /\ phase' = "stopped"
    /\ lifecycle' = Lifecycle(lifecycle.calls + 1, FALSE)
    /\ UNCHANGED <<construction, probe_log, call, app, disk, response,
                   workflow_services, tasks, contents>>

\* A request resolves get_processor.
GetProcessor ==
    /\ response = None
    /\ LET got == get_processor(Globals(processor, storage_client))
       IN  response' = [handler |-> "get_processor", raised |-> got.raised,
                        body |-> got.value,
                        initialized |-> lifecycle.initialized]
    /\ UNCHANGED <<processor, construction, probe_log, call, app, phase,
                   storage_client, disk, async_vars>>

\* A request resolves get_storage_client (backend) or get_document_service
\* (snap_ai).  response.initialized keeps whether a successful
\* initialize_services was in force when the request was served.
GetStorageClient ==
    /\ response = None
    /\ LET got == get_storage_client(Globals(processor, storage_client))
       IN  response' = [handler |-> "get_storage_client", raised |-> got.raised,
                        body |-> got.value,
                        initialized |-> lifecycle.initialized]
    /\ UNCHANGED <<processor, construction, probe_log, call, app, phase,
                   storage_client, disk, async_vars>>

\* The health route of the backend asks is_healthy.
IsHealthy ==
    /\ app = "backend"
    /\ response = None
    /\ response' = [handler |-> "is_healthy", raised |-> "",
                    body |-> is_healthy(Globals(processor, storage_client)),
                    initialized |-> lifecycle.initialized]
    /\ UNCHANGED <<processor, construction, probe_log, call, app, phase,
                   storage_client, disk, async_vars>>

NextLifecycle ==
    \/ InitializeServices
    \/ CleanupServices
    \/ GetProcessor
    \/ GetStorageClient
    \/ IsHealthy
    \/ ResponseSent

SpecLifecycle == InitLifecycle /\ [][NextLifecycle]_vars

\* --------------------------------------------------- concurrent uploads
\* The upload handlers of the three applications served by one event loop:
\* a handler gives way to the other requests where it awaits.
ConcurrentUploads ==
    {Upload("invoice.txt", 1, "valid"), Upload("invoice.txt", 1, "corrupt"),
     Upload("photo.jpg", 1, "valid")}

\* The upload routes of an application.
UploadRoutes(application) ==
    CASE application = "backend" -> {"quick_scan", "document_workflow"}
      [] application = "snap_ai" -> {"process_single_document"}
      [] OTHER -> {"upload_file", "api_process_document"}

\* A request in flight: the temp file it wrote (None before it wrote one),
\* whose bytes its text extraction read and whose file its cleanup deleted
\* (0 when it has not read or deleted, -1 when the file was not there).
UploadTask(route, up) ==
    [route |-> route, pc |-> "read", upload |-> up, path |-> None,
     read_from |-> 0, deleted |-> 0, raised |-> ""]

\* open(path, "wb").write(content) by request t
WriteFile(files, path, t, bytes) ==
    [p \in DOMAIN files \cup {path} |->
        IF p = path THEN [writer |-> t, bytes |-> bytes] ELSE files[p]]

\* path.unlink(missing_ok=True)
Unlink(files, path) == [p \in DOMAIN files \ {path} |-> files[p]]

\* Whose bytes are at path: -1 when there is no such file.
WriterOf(files, path) == IF path \in DOMAIN files THEN files[path].writer ELSE -1

\* Text extraction from the file at path, then process_document.
ExtractAndProcess(files, path, file_ext, extract(_, _, _), process(_, _, _, _)) ==
    IF path \notin DOMAIN files THEN "FileNotFoundError"
    ELSE LET text == extract(file_ext, files[path].bytes, TRUE)
         IN  IF text.raised # "" THEN text.raised
             ELSE process(processor, WorkflowDocument.text, WorkflowDocument.q,
                          WorkflowWorld).raised

InitConcurrent ==
    /\ processor \in WorkflowProcessors
    /\ construction = None
    /\ probe_log = <<>>
    /\ call = None
    /\ app \in Apps
    /\ phase = "running"
    /\ storage_client = None
    /\ disk = {}
    /\ response = None
    /\ workflow_services = <<>>
    /\ tasks = <<>>
    /\ contents = <<>>
    /\ lifecycle = None

\* A request arrives and its handler awaits file.read().
UploadArrives ==
    /\ Len(tasks) < MaxTasks
    /\ \E up \in ConcurrentUploads, route \in UploadRoutes(app) :
          tasks' = Append(tasks, UploadTask(route, up))
    /\ UNCHANGED <<processor, construction, probe_log, call, service_vars,
                   workflow_services, contents, lifecycle>>

\* quick_scan, document_workflow and process_single_document up to the end
\* of await save_temp_file: analyze_file, then the write under a new uuid.
SaveTempFile ==
    \E t \in 1..Len(tasks) :
        /\ tasks[t].route \in {"quick_scan", "document_workflow",
                               "process_single_document"}
        /\ tasks[t].pc = "read"
        /\ LET up == tasks[t].upload
               info == analyze_file(up)
               temp_path == TempPath(NewUuid(disk), up.filename)
           IN  IF info.raised # ""
               THEN /\ tasks' = [tasks EXCEPT ![t].pc = "done",
                                              ![t].raised = info.raised]
                    /\ UNCHANGED <<disk, contents>>
               ELSE /\ tasks' = [tasks EXCEPT ![t].pc = "saved",
                                              ![t].path = temp_path]
                    /\ disk' = disk \cup {temp_path}
                    /\ contents' = WriteFile(contents, temp_path, t, up.content)
        /\ UNCHANGED <<processor, construction, probe_log, call, app, phase,
                       storage_client, response, workflow_services, lifecycle>>

\* The try block of quick_scan and process_single_document with its finally
\* clause, and the try block of document_workflow up to its first await on
\* the storage client (with the finally clause when it raises).
ExtractTempFile ==
    \E t \in 1..Len(tasks) :
        /\ tasks[t].pc = "saved"
        /\ LET k == tasks[t]
               raised == ExtractAndProcess(contents, k.path,
                                           FileExt(k.upload.filename),
                                           extract_text_from_file,
                                           process_document)
               seen == WriterOf(contents, k.path)
           IN  IF k.route = "document_workflow" /\ raised = ""
               THEN /\ tasks' = [tasks EXCEPT ![t].pc = "storing",
                                              ![t].read_from = seen]
                    /\ UNCHANGED <<disk, contents>>
               ELSE /\ tasks' = [tasks EXCEPT ![t].pc = "done",
                                              ![t].read_from = seen,
                                              ![t].deleted = seen,
                                              ![t].raised = raised]
                    /\ disk' = disk \ {k.path}
                    /\ contents' = Unlink(contents, k.path)
        /\ UNCHANGED <<processor, construction, probe_log, call, app, phase,
                       storage_client, response, workflow_services, lifecycle>>

\* document_workflow from the storage calls to its end: the finally clause
\* removes the temp file.
StoreDocument ==
    \E t \in 1..Len(tasks) :
        /\ tasks[t].pc = "storing"
        /\ tasks' = [tasks EXCEPT ![t].pc = "done",
                                  ![t].deleted = WriterOf(contents, tasks[t].path)]
        /\ disk' = disk \ {tasks[t].path}
        /\ contents' = Unlink(contents, tasks[t].path)
        /\ UNCHANGED <<processor, construction, probe_log, call, app, phase,
                       storage_client, response, workflow_services, lifecycle>>

\* upload_file and api_process_document of app.py after await file.read():
\* the write, the extraction, process_document and the unlink follow one
\* another without an await; an exception leaves the file.
LegacyUpload ==
    \E t \in 1..Len(tasks) :
        /\ tasks[t].route \in {"upload_file", "api_process_document"}
        /\ tasks[t].pc = "read"
        /\ LET k == tasks[t]
               named == k.route = "api_process_document"
               file_ext == IF named THEN Lower(PathSuffix(k.upload.filename))
                           ELSE FileExt(k.upload.filename)
               temp_path == IF named THEN TempPath(0, k.upload.filename)
                            ELSE TempPath(NewUuid(disk), k.upload.filename)
               written == WriteFile(contents, temp_path, t, k.upload.content)
               raised == ExtractAndProcess(written, temp_path, file_ext,
                                           legacy_extract_text_from_file,
                                           legacy_process_document)
           IN  IF ~named /\ file_ext \notin ALLOWED_TYPES
               THEN /\ tasks' = [tasks EXCEPT ![t].pc = "done",
                                              ![t].raised = "HTTPException 400"]
                    /\ UNCHANGED <<disk, contents>>
               ELSE IF raised # ""
               THEN /\ tasks' = [tasks EXCEPT ![t].pc = "done",
                                              ![t].path = temp_path,
                                              ![t].read_from = t,
                                              ![t].raised = raised]
                    /\ disk' = disk \cup {temp_path}
                    /\ contents' = written
               ELSE /\ tasks' = [tasks EXCEPT ![t].pc = "done",
                                              ![t].path = temp_path,
                                              ![t].read_from = t,
                                              ![t].deleted = t]
                    /\ disk' = disk \ {temp_path}
                    /\ contents' = Unlink(written, temp_path)
        /\ UNCHANGED <<processor, construction, probe_log, call, app, phase,
                       storage_client, response, workflow_services, lifecycle>>

NextConcurrent ==
    \/ UploadArrives
    \/ SaveTempFile
    \/ ExtractTempFile
    \/ StoreDocument
    \/ LegacyUpload

SpecConcurrent == InitConcurrent /\ [][NextConcurrent]_vars

\* ================================================================ claims
ProbeOrder == <<"ollama", "huggingface", "openai">>

Locked == IF processor = None THEN "none" ELSE processor.extraction_method

ProbeSucceeded(i) ==
    /\ Len(probe_log) >= i
    /\ probe_log[i].ok
    /\ \A j \in 1..(i - 1) : ~probe_log[j].ok

\* C1: construction probes ollama, huggingface, openai in that order, makes a
\* probe only when every earlier probe failed, and locks the backend of the
\* first probe that succeeds.
C1_ProbeOrder ==
    construction # None =>
        /\ Len(probe_log) <= 3
        /\ \A i \in 1..Len(probe_log) :
              /\ probe_log[i].backend = ProbeOrder[i]
              /\ \A j \in 1..(i - 1) : ~probe_log[j].ok
        /\ \A i \in 1..3 : (Locked = ProbeOrder[i]) <=> ProbeSucceeded(i)

C1_Witness ==
    /\ Locked = "openai"
    /\ Len(probe_log) = 3
    /\ probe_log[3].ok

\* C2: when all three probes fail the constructor raises and there is no
\* Processor; a Processor that exists has one of the three backends locked,
\* never "none", in every state after construction.
C2_NeverNone ==
    /\ (construction # None /\ ~construction.ok) => processor = None
    /\ (Len(probe_log) = 3 /\ \A i \in 1..3 : ~probe_log[i].ok) =>
          (construction # None /\ ~construction.ok
           /\ construction.error = "RuntimeError" /\ processor = None)
    /\ processor # None =>
          processor.extraction_method \in {"ollama", "huggingface", "openai"}

C2_Witness ==
    /\ construction # None
    /\ construction.error = "RuntimeError"
    /\ Len(probe_log) = 3
    /\ processor = None

\* C3: process_document returns a result record and never raises, whatever
\* fails in the extraction step.
C3_NeverRaises ==
    call # None => (call.raised = "" /\ call.result # None)

\* C6: once a Processor exists, no process_document call changes its
\* extraction_method or probes a backend again, and every call goes to the
\* adapter of the locked backend.
C6_BackendFrozen ==
    [][processor # None =>
          /\ processor' = processor
          /\ probe_log' = probe_log
          /\ (call' # None => call'.adapter = processor.extraction_method)]_vars

C6_Witness ==
    /\ call # None
    /\ call.result # None
    /\ Locked = "huggingface"
    /\ call.adapter = "huggingface"
    /\ "error" \in DOMAIN call.result.extracted_data

\* C10: every result has ml_confidence and overall_confidence in [0, 1], and
\* its confidence_level is high from 0.8 up, medium from the threshold 0.6 up
\* and low below.
C10_ConfidenceLevel ==
    (call # None /\ call.result # None) =>
        LET r == call.result
        IN  /\ r.ml_confidence >= 0 /\ r.ml_confidence <= Scale
            /\ r.overall_confidence >= 0 /\ r.overall_confidence <= Scale
            /\ (r.confidence_level = "high") <=> (r.overall_confidence >= HIGH_THRESHOLD)
            /\ (r.confidence_level = "medium") <=>
                  (r.overall_confidence < HIGH_THRESHOLD
                   /\ r.overall_confidence >= CONFIDENCE_THRESHOLD)
            /\ (r.confidence_level = "low") <=>
                  (r.overall_confidence < CONFIDENCE_THRESHOLD)

C10_Witness ==
    /\ call # None
    /\ call.result # None
    /\ call.result.overall_confidence = CONFIDENCE_THRESHOLD
    /\ call.result.confidence_level = "medium"

TimedOut == call # None /\ call.world = "exception" /\ call.raised = ""

\* C14 as stated: when the backend call times out or the connection fails,
\* the result has extracted_data = {"error": message} and nothing else,
\* completeness 0.5 and overall_confidence = 0.4 * ml_confidence + 0.3 > 0.
C14_AsStated ==
    TimedOut =>
        /\ call.result # None
        /\ DOMAIN call.result.extracted_data = {"error"}
        /\ 10 * call.result.overall_confidence =
              4 * call.result.ml_confidence + 3 * Scale
        /\ call.result.overall_confidence > 0

\* C14: when the backend call times out or the connection fails, the result
\* has extracted_data = {"error": message, "raw_response": ""}, completeness
\* 0.5 and overall_confidence = 0.4 * ml_confidence + 0.3 > 0.
C14_TimeoutResult ==
    TimedOut =>
        /\ call.result # None
        /\ DOMAIN call.result.extracted_data = {"error", "raw_response"}
        /\ call.result.extracted_data.error # Str("")
        /\ call.result.extracted_data.raw_response = Str("")
        /\ data_completeness(call.result.extracted_data) = DEFAULT_COMPLETENESS
        /\ 10 * call.result.overall_confidence =
              4 * call.result.ml_confidence + 3 * Scale
        /\ call.result.overall_confidence > 0

C14_Witness ==
    /\ TimedOut
    /\ call.adapter = "ollama"
    /\ call.result.ml_confidence = 150
    /\ call.result.overall_confidence = 240

\* C17: when prompts.yaml is absent or does not load as a usable catalog
\* (missing file, YAML error, empty document), the loader falls back to the
\* built-in catalog, and the construction of the Processor does not fail
\* because of it.
C17_CatalogFallback ==
    (construction # None /\ construction.yaml \in {"missing", "yaml_error", "empty"}) =>
        /\ construction.error # "AttributeError"
        /\ processor # None => processor.prompts = get_default_prompts

\* ------------------------------------------------- claims on the services
BatchHandlers == {"batch_quick_scan", "process_batch_documents"}

SingleHandlers == {"quick_scan", "document_workflow", "process_single_document"}

BatchResponse == response # None /\ response.handler \in BatchHandlers

\* The synthetic failed result of a document whose handling raised message.
SyntheticFailure(r, message) ==
    /\ r.document_type = "unknown"
    /\ r.ml_confidence = 0
    /\ r.overall_confidence = 0
    /\ r.needs_human_review
    /\ r.extracted_data = [error |-> Str(message)]

\* C4: in a batch, when the handling of document i raises, the batch still
\* returns normally and results[i] is the synthetic failed result carrying
\* the message; one bad file never aborts the batch.
C4_BatchIsolation ==
    BatchResponse =>
        \A i \in 1..Len(response.handled) :
            response.handled[i].raised # "" =>
                /\ response.raised = ""
                /\ Len(response.body.results) >= i
                /\ SyntheticFailure(response.body.results[i],
                                    response.handled[i].raised)

\* C5: a batch of n documents returns total_documents = n and n results in
\* input order, successful + failed = n with failed the number of results
\* that have an error key, and a document handled without exception appears
\* as its normal result even when a sibling fails.
C5_BatchCounts ==
    BatchResponse =>
        LET n == Len(response.files)
        IN  /\ response.raised = ""
            /\ response.body.total_documents = n
            /\ Len(response.body.results) = n
            /\ response.body.successful + response.body.failed = n
            /\ response.body.failed =
                  Cardinality({i \in 1..n :
                      "error" \in DOMAIN response.body.results[i].extracted_data})
            /\ \A i \in 1..n :
                  /\ response.body.results[i].uploaded_file =
                        response.files[i].filename
                  /\ response.handled[i].raised = "" =>
                        response.body.results[i] = response.handled[i].body

\* C7: when construction fails at startup the failure leaves the lifespan
\* hook; the application never runs without a processor.
C7_StartupPropagates ==
    /\ (construction # None /\ ~construction.ok) => phase = "startup_failed"
    /\ phase = "running" => processor # None

\* C8: when a request has ended, however it ended, no temp file it wrote is
\* left in uploads/.
C8_TempFilesRemoved ==
    response # None => response.written \cap disk = {}

Rejected ==
    /\ response.steps = <<"validate">>
    /\ response.raised \in {"ValueError: No file selected",
                            "ValueError: File type not supported",
                            "ValueError: File size exceeds limit"}
    /\ response.body = None
    /\ response.written = {}

ProducedResults ==
    IF response = None \/ response.body = None THEN {}
    ELSE CASE response.handler \in {"quick_scan", "process_single_document",
                                    "api_process_document"} -> {response.body}
           [] response.handler = "document_workflow" ->
                 {response.body.processing_result}
           [] response.handler \in BatchHandlers ->
                 {response.body.results[i] : i \in 1..Len(response.body.results)}
           [] OTHER -> IF "result" \in DOMAIN response.body
                       THEN {response.body.result} ELSE {}

\* C11: in every result record the system returns, needs_human_review is true
\* exactly when confidence_level is low.
C11_ReviewIffLow ==
    \A r \in ProducedResults :
        r.needs_human_review <=> (r.confidence_level = "low")

C11_Witness ==
    /\ response # None
    /\ response.handler = "quick_scan"
    /\ \E r \in ProducedResults :
          r.confidence_level = "low" /\ r.needs_human_review

\* ------------------------------------------------ claims on the functions
Returned_(fn) == call # None /\ call.fn = fn /\ call.returned

NonEmptyKeys(data) == {k \in DOMAIN data : data[k] # Str("")}

\* C12: overall_confidence = 0.4 * ml_confidence + 0.6 * completeness,
\* clamped to [0, 1]; for extracted_data = {} it is 0.4 * ml_confidence + 0.3.
C12_WeightedConfidence ==
    Returned_("calculate_confidence") =>
        LET ml == call.args.ml_confidence
            data == call.args.extracted_data
            c == call.out.data_completeness
            weighted == 4 * ml + 6 * c
        IN  /\ 10 * call.out.overall_confidence =
                  IF weighted > 10 * Scale THEN 10 * Scale
                  ELSE IF weighted < 0 THEN 0 ELSE weighted
            /\ DOMAIN data = {} =>
                  10 * call.out.overall_confidence = 4 * ml + 3 * Scale

C12_Witness ==
    /\ Returned_("calculate_confidence")
    /\ DOMAIN call.args.extracted_data = {}
    /\ call.args.ml_confidence = 450
    /\ call.out.overall_confidence = 360

C15_ParseOrRaw ==
    Returned_("parse_json_response") =>
        LET raw == call.args.response
            opens == {i \in 1..Len(raw) : raw[i] = "{"}
            closes == {i \in 1..Len(raw) : raw[i] = "}"}
            first == CHOOSE i \in opens : \A j \in opens : i <= j
            last == CHOOSE i \in closes : \A j \in closes : j <= i
            Parses == /\ opens # {} /\ closes # {}
                      /\ first <= last
                      /\ JsonValid(SubSeq(raw, first, last))
        IN  /\ call.out # None
            /\ IF Parses
               THEN call.out = JsonLoads(SubSeq(raw, first, last))
               ELSE /\ call.out = [raw_response |-> RawText(raw)]
                    /\ "error" \notin DOMAIN call.out

C15_Witness ==
    /\ Returned_("parse_json_response")
    /\ call.args.response = <<"{", "}", "}">>
    /\ call.out = [raw_response |-> RawText(<<"{", "}", "}">>)]

\* C16: for a file of an accepted kind and any content, corrupted content
\* included, text extraction returns a string and lets no decode or
\* processing error through (the OCR and PDF libraries being installed).
C16_ExtractionReturnsText ==
    (Returned_("extract_text_from_file") /\ call.args.ocr) =>
        call.out.raised = ""

\* The template a format_prompt call works on.
CallTemplate ==
    get_prompt(call.args.prompts, call.args.doc_type, call.args.method)

PreviewOf(text) == IF text > PREVIEW_LEN THEN PREVIEW_LEN ELSE text

\* C18: format_prompt never fails on a malformed template (unknown named
\* placeholder, positional or empty placeholder, unbalanced brace): it
\* returns the template with {text} and {text_preview} replaced.
C18_FormatNeverFails ==
    Returned_("format_prompt") =>
        /\ call.out.raised = ""
        /\ Len(call.out.value) = Len(CallTemplate)
        /\ \A i \in 1..Len(CallTemplate) :
              /\ CallTemplate[i] = "T" =>
                    call.out.value[i] = Piece("text", call.args.text)
              /\ CallTemplate[i] = "P" =>
                    call.out.value[i] = Piece("text", PreviewOf(call.args.text))

\* C19: get_prompt returns the exact (doc_type, backend) entry if there is
\* one, otherwise the (default, backend) entry if there is one, otherwise a
\* synthesized template that names doc_type and has the {text} placeholder;
\* it returns a template for every catalog content.
C19_ResolutionOrder ==
    Returned_("get_prompt") =>
        /\ call.out.raised = ""
        /\ LET prompts == call.args.prompts
               doc_type == call.args.doc_type
               method == call.args.method
               Exact == /\ "document_types" \in DOMAIN prompts
                        /\ doc_type \in DOMAIN prompts.document_types
                        /\ method \in DOMAIN prompts.document_types[doc_type]
               Default == /\ "default" \in DOMAIN prompts
                          /\ method \in DOMAIN prompts.default
           IN  IF Exact
               THEN call.out.value = prompts.document_types[doc_type][method]
               ELSE IF Default
               THEN call.out.value = prompts.default[method]
               ELSE /\ \E i \in 1..Len(call.out.value) : call.out.value[i] = doc_type
                    /\ \E i \in 1..Len(call.out.value) : call.out.value[i] = "T"

\* C20: the preview format_prompt substitutes is the first 300 characters of
\* a text longer than 300 characters and the whole text otherwise, so for a
\* text shorter than 300 characters the full-text and the preview values are
\* the same, on the normal path and on the literal-replacement path.
C20_PreviewCap ==
    (Returned_("format_prompt") /\ call.out.raised = "") =>
        /\ \A i \in 1..Len(CallTemplate) :
              /\ CallTemplate[i] = "T" =>
                    call.out.value[i] = Piece("text", call.args.text)
              /\ CallTemplate[i] = "P" =>
                    call.out.value[i] = Piece("text", PreviewOf(call.args.text))
        /\ call.args.text < PREVIEW_LEN =>
              \A i, j \in 1..Len(CallTemplate) :
                  (CallTemplate[i] = "T" /\ CallTemplate[j] = "P") =>
                      call.out.value[i] = call.out.value[j]

\* a text of 301 characters on the literal-replacement path
C20_Witness ==
    /\ Returned_("format_prompt")
    /\ CallTemplate = <<"U", "P", "T">>
    /\ call.args.text = 301
    /\ call.out.raised = ""
    /\ call.out.value[2] = Piece("text", 300)
    /\ call.out.value[3] = Piece("text", 301)

\* ------------------------------------------------ claims on the pipeline
\* The labels of the training set.
TrainedLabels == {TrainingLabels[i] : i \in 1..Len(TrainingLabels)}

\* C21: the document_type of every result is in the closed set invoice,
\* contract, form, receipt, unknown; a result of the pipeline carries a
\* trained label, unknown appears only in a synthetic failure record, and the
\* conversion into a ProcessingResult never fails on a result of the pipeline.
C21_ClosedLabels ==
    /\ \A r \in ProducedResults :
          /\ r.document_type \in DocumentType
          /\ r.document_type \notin TrainedLabels =>
                /\ r.document_type = "unknown"
                /\ r.ml_confidence = 0
                /\ "error" \in DOMAIN r.extracted_data
    /\ response # None =>
          /\ response.handler \in SingleHandlers =>
                response.raised # "ValidationError"
          /\ \A i \in 1..Len(response.handled) :
                response.handled[i].raised # "ValidationError"

\* a receipt went through classification and conversion
C21_Witness ==
    /\ response # None
    /\ response.handler = "quick_scan"
    /\ response.steps = <<"validate", "save", "extract", "process", "convert",
                          "cleanup">>
    /\ response.raised = ""
    /\ response.body.document_type = "receipt"

\* C22: within one process_document call the steps run in the order classify,
\* extract, post-process, score, level, assemble: the adapter is given the
\* label of the classifier, extracted_data is the post-processed output of
\* the adapter, overall_confidence is computed from that post-processed data,
\* the level from overall_confidence and the review flag from the level.
C22_StepOrder ==
    (call # None /\ "result" \in DOMAIN call /\ call.raised = "") =>
        LET c == classify_document(call.q)
            r == call.result
        IN  /\ call.label = c.prediction
            /\ r.document_type = c.prediction
            /\ r.ml_confidence = c.confidence
            /\ call.world = "ok" =>
                  r.extracted_data =
                      post_process_extracted_data(parse_json_response(call.response))
            /\ r.overall_confidence =
                  calculate_confidence(r.ml_confidence, r.extracted_data)
            /\ r.confidence_level = get_confidence_level(r.overall_confidence)
            /\ r.needs_human_review = (r.confidence_level = "low")

\* post-processing added items_raw and so changed the completeness
C22_Witness ==
    /\ call # None /\ "result" \in DOMAIN call /\ call.raised = ""
    /\ call.world = "ok"
    /\ call.response = <<"{", "i", "e", "}">>
    /\ "items_raw" \in DOMAIN call.result.extracted_data
    /\ call.result.overall_confidence #
          calculate_confidence(call.result.ml_confidence,
                               parse_json_response(call.response))

\* The list fields of the raw output whose value post-processing changed.
Rewritten(before, after) ==
    {f \in item_fields \cap DOMAIN before : after[f] # before[f]}

Resulted == call # None /\ "result" \in DOMAIN call /\ call.raised = ""

Unparseable(output) ==
    \/ Find(output, "{") = 0
    \/ RFind(output, "}") = 0
    \/ ~JsonValid(Slice(output, Find(output, "{"), RFind(output, "}")))

\* C25: whenever the model output is non-empty and cannot be parsed as JSON,
\* extracted_data is {raw_response: output}, completeness is 1 and
\* overall_confidence = 0.4 * ml_confidence + 0.6 >= 0.6; with the default
\* threshold the result is never low and never flagged for review.
C25_RawOutputNeverLow ==
    (Resulted /\ call.world = "ok" /\ call.response # <<>>
        /\ Unparseable(call.response)) =>
        LET r == call.result
        IN  /\ r.extracted_data = [raw_response |-> RawText(call.response)]
            /\ data_completeness(r.extracted_data) = Scale
            /\ 10 * r.overall_confidence = 4 * r.ml_confidence + 6 * Scale
            /\ r.overall_confidence >= CONFIDENCE_THRESHOLD
            /\ r.confidence_level # "low"
            /\ ~r.needs_human_review

\* prose only, on the least confident classification
C25_Witness ==
    /\ Resulted
    /\ call.world = "ok"
    /\ call.response = <<"x">>
    /\ call.result.ml_confidence = 150
    /\ call.result.overall_confidence = 420
    /\ call.result.confidence_level = "medium"
    /\ ~call.result.needs_human_review

\* ----------------------------------------------- claims on the workflows
\* The process_and_forward calls on WorkflowService instances.
WorkflowCalls == {t \in 1..Len(tasks) : tasks[t].route \in {"webhook", "call"}}

\* What the records say when calls have ended.
StatusAtEnd ==
    /\ \A t \in WorkflowCalls :
          LET k == tasks[t]
              active_workflows == workflow_services[k.service]
          IN  k.pc = "done" =>
                 /\ k.raised = "" => active_workflows[k.workflow_id] = "completed"
                 /\ k.raised # "" => active_workflows[k.workflow_id] = "failed"
                 /\ k.webhook \in {"500", "timeout"} =>
                       /\ k.raised = ""
                       /\ ~k.forwarded
                       /\ active_workflows[k.workflow_id] = "completed"
    /\ \A i \in 1..Len(workflow_services) :
          \A id \in DOMAIN workflow_services[i] :
              workflow_services[i][id] = "processing" =>
                  \E t \in WorkflowCalls :
                      /\ tasks[t].service = i
                      /\ tasks[t].workflow_id = id
                      /\ tasks[t].pc \in {"processing", "forwarding"}

\* How the records change in one step.
StatusStep ==
    \A i \in 1..Len(workflow_services) :
        /\ \A id \in DOMAIN workflow_services[i] :
              /\ id \in DOMAIN workflow_services'[i]
              /\ workflow_services'[i][id] # workflow_services[i][id] =>
                    /\ workflow_services[i][id] = "processing"
                    /\ workflow_services'[i][id] \in {"completed", "failed"}
        /\ \A id \in DOMAIN workflow_services'[i] \ DOMAIN workflow_services[i] :
              workflow_services'[i][id] = "processing"

C27_StatusLookup ==
    \A t \in 1..Len(tasks) :
        (tasks[t].route = "status" /\ tasks[t].pc = "done") =>
            /\ tasks[t].raised = ""
            /\ tasks[t].status = "completed"

\* The process-and-forward requests that have ended.
ForwardRequests ==
    {t \in 1..Len(tasks) : /\ tasks[t].route \in {"webhook", "snap_webhook"}
                           /\ tasks[t].pc = "done"}

C29_AvailableWhileInitialized ==
    /\ (processor # None) <=> lifecycle.initialized
    /\ (storage_client # None) <=> lifecycle.initialized
    /\ response # None =>
          /\ response.handler \in {"get_processor", "get_storage_client"} =>
                IF response.initialized
                THEN response.raised = "" /\ response.body # None
                ELSE response.raised = "HTTPException 503"
          /\ response.handler = "is_healthy" =>
                (response.body <=> response.initialized)

\* after a start, a stop and a start that failed, get_processor answers 503
C29_Witness ==
    /\ lifecycle.calls = 3
    /\ ~lifecycle.initialized
    /\ phase = "stopped"
    /\ construction # None /\ ~construction.ok
    /\ response # None
    /\ response.handler = "get_processor"
    /\ response.raised = "HTTPException 503"

\* -------------------------------------- claims on the concurrent uploads
\* C30: for any interleaving of concurrent upload requests, also of uploads
\* with the same filename, each request reads and deletes only the temp file
\* it wrote itself: its text extraction reads its own bytes, its cleanup
\* deletes its own file, and the file of a request that still needs it is
\* there with its bytes.
C30_OwnTempFile ==
    \A t \in 1..Len(tasks) :
        /\ tasks[t].read_from \in {0, t}
        /\ tasks[t].deleted \in {0, t}
        /\ tasks[t].pc = "saved" =>
              /\ tasks[t].path \in disk
              /\ contents[tasks[t].path].writer = t

\* the second of two uploads of invoice.txt ended and removed its file while
\* the first still holds its own
C30_Witness ==
    /\ Len(tasks) = 2
    /\ tasks[1].upload.filename = tasks[2].upload.filename
    /\ tasks[1].pc = "saved"
    /\ tasks[1].path \in disk
    /\ tasks[2].pc = "done"
    /\ tasks[2].read_from = 2
    /\ tasks[2].deleted = 2

====
